---------------------------- MODULE Spec2Model ----------------------------
(***************************************************************************)
(* A model of the warframe-trade-tool backend: the market client with its  *)
(* retry loop, the order filter, the pricing engine, the market data       *)
(* scheduler with the application's lifespan, and the WebSocket hub.        *)
(*                                                                         *)
(* Prices are carried in hundredths of a platinum (Scale), margins in      *)
(* ten-thousandths (MarginScale): the two roundings of the opportunity     *)
(* record.  Delays are carried in milliseconds.                            *)
(***************************************************************************)
EXTENDS Integers, Sequences, FiniteSets, TLC

VARIABLES
    \* ---- application and scheduler (main.py, scheduler.py)
    appPc,                  \* position of lifespan()
    running,                \* MarketDataScheduler.running
    current_opportunities,  \* MarketDataScheduler.current_opportunities
    last_update,            \* MarketDataScheduler.last_update (NoUpdate: None)
    tasks,                  \* the asyncio tasks running _run_loop / fetch_and_process
    market,                 \* what the marketplace answers for each item key
    catalog,                \* what get_all_frames() returns
    snapshots,              \* the rows of set_snapshots / price_snapshots
    outbox,                 \* the messages handed to manager.broadcast by cycles
    lastRead,               \* the last call of get_current_opportunities
    env_platform_fee_pct,   \* settings.platform_fee_pct as the environment sets it
    \* ---- a scheduler under any calls of start() and stop() (scheduler.py)
    ss,
    \* ---- a scheduler's loop on the clock (scheduler.py)
    timed,
    \* ---- one call of get_item_orders (market_client.py)
    rq,
    \* ---- one application of a pure function (pricing.py, market_client.py)
    call,
    \* ---- the WebSocket hub (ws_manager.py, routes.py)
    active_connections,     \* ConnectionManager.active_connections
    client_configs,         \* ConnectionManager.client_configs
    sockets,                \* each websocket's state
    bc,                     \* the broadcast that advanced last, the broadcasts returned before it
    inbox,                  \* the first message passed to send_json of each websocket
    received                \* the last message a handler received, the personal sends in flight

vars == <<appPc, running, current_opportunities, last_update, tasks, market,
          catalog, snapshots, outbox, lastRead, env_platform_fee_pct, ss, timed, rq, call,
          active_connections, client_configs, sockets, bc, inbox, received>>

schedVars == <<appPc, running, current_opportunities, last_update, tasks,
               market, catalog, snapshots, outbox, lastRead,
               env_platform_fee_pct, ss, timed>>
hubVars == <<active_connections, client_configs, sockets, bc, inbox, received>>

-----------------------------------------------------------------------------
(* Bounds of the model *)

\* The loop runs at most this many cycles.
MaxCycles == 2

\* Two decimals of round(profit, 2); four of round(margin, 4).
Scale == 100
MarginScale == 10000

\* self.last_update = None
NoUpdate == -1

\* The cycle number (the clock reading) of the initial fetch that lifespan()
\* launches; the loop's cycles are numbered from 1.
InitialCycle == 0

\* if opp["profit_plat"] >= 50
AlertThreshold == 50

\* MarketClient.__init__: self.max_retries, self.base_backoff, self.max_backoff (ms)
max_retries == 5
base_backoff == 1000
max_backoff == 60000

\* response.headers.get("Retry-After", "5")
DefaultRetryAfter == 5

\* The subscribers that connect.
MaxConnections == 3

-----------------------------------------------------------------------------
(* Sequence helpers *)

Min(a, b) == IF a <= b THEN a ELSE b
Max(a, b) == IF a >= b THEN a ELSE b

RECURSIVE Pow2(_)
Pow2(n) == IF n = 0 THEN 1 ELSE 2 * Pow2(n - 1)

RECURSIVE SumSeq(_)
SumSeq(s) == IF s = <<>> THEN 0 ELSE Head(s) + SumSeq(Tail(s))

RECURSIVE InsertSorted(_, _)
InsertSorted(v, s) ==
    IF s = <<>> THEN <<v>>
    ELSE IF v < Head(s) THEN <<v>> \o s
    ELSE <<Head(s)>> \o InsertSorted(v, Tail(s))

\* sorted(values)
RECURSIVE sorted(_)
sorted(values) ==
    IF values = <<>> THEN <<>>
    ELSE InsertSorted(values[Len(values)], sorted(SubSeq(values, 1, Len(values) - 1)))

-----------------------------------------------------------------------------
(* Configuration: config.py *)

settings ==
    [platform |-> "pc", strategy |-> "balanced", refresh_interval_seconds |-> 45,
     platform_fee_pct |-> 0, use_db |-> TRUE]

\* The fee rates a deployment configures, in hundredths: none, 0.10 and 0.20
FeeRates == {0, 10, 20}

-----------------------------------------------------------------------------
(* Orders and the order filter: market_client.py *)

Order(type, vis, status, plat, cross, price, name) ==
    [order_type |-> type, visible |-> vis, status |-> status, platform |-> plat,
     crossplay |-> cross, platinum |-> price, numeric |-> TRUE, ingame_name |-> name]

\* An order whose "platinum" is not a number (float() raises on it).
Malformed(o) == [o EXCEPT !.numeric = FALSE]

console_platforms == {"ps4", "xbox", "switch", "playstation"}

\* A variant that keeps, on a console, the orders of the configured platform
\* instead of the cross-play ones.
KeepOrderSamePlatform(platform, order, order_type) ==
    /\ order.order_type = order_type
    /\ order.visible
    /\ order.status = "ingame"
    /\ order.platform = platform

KeepOrder(platform, order, order_type) ==
    /\ order.order_type = order_type
    /\ order.visible
    /\ order.status = "ingame"
    /\ \/ (platform = "pc" /\ order.platform = "pc")
       \/ (platform \in console_platforms /\ order.crossplay)

RECURSIVE filter_orders(_, _, _)
filter_orders(platform, orders, order_type) ==
    IF orders = <<>> THEN <<>>
    ELSE (IF KeepOrder(platform, Head(orders), order_type) THEN <<Head(orders)>> ELSE <<>>)
         \o filter_orders(platform, Tail(orders), order_type)

-----------------------------------------------------------------------------
(* Pricing engine: pricing.py *)

\* A variant that does not sort the values.
PercentileUnsorted(values, percentile) ==
    IF values = <<>> THEN 0
    ELSE LET n == Len(values)
             rank100 == percentile * (n - 1)
             lower_idx == rank100 \div 100
             upper_idx == Min(lower_idx + 1, n - 1)
             fraction100 == rank100 % 100
         IN  values[lower_idx + 1]
             + (fraction100 * (values[upper_idx + 1] - values[lower_idx + 1])) \div 100

\* values in hundredths, percentile an integer 0..100
calculate_percentile(values, percentile) ==
    IF values = <<>> THEN 0
    ELSE LET sorted_values == sorted(values)
             n == Len(sorted_values)
             rank100 == percentile * (n - 1)
             lower_idx == rank100 \div 100
             upper_idx == Min(lower_idx + 1, n - 1)
             fraction100 == rank100 % 100
         IN  sorted_values[lower_idx + 1]
             + (fraction100 * (sorted_values[upper_idx + 1] - sorted_values[lower_idx + 1])) \div 100

\* A variant that falls back to the first strategy of the table.
GetStrategyParamsFirst(strategy) ==
    LET conservative == [buy_metric |-> "median", buy_order_type |-> "sell",
                         sell_metric |-> "max", sell_order_type |-> "buy"]
        balanced == [buy_metric |-> "p35", buy_order_type |-> "sell",
                     sell_metric |-> "median", sell_order_type |-> "sell"]
        aggressive == [buy_metric |-> "min", buy_order_type |-> "sell",
                       sell_metric |-> "min", sell_order_type |-> "sell"]
    IN  CASE strategy = "balanced" -> balanced
          [] strategy = "aggressive" -> aggressive
          [] OTHER -> conservative

get_strategy_params(strategy) ==
    LET conservative == [buy_metric |-> "median", buy_order_type |-> "sell",
                         sell_metric |-> "max", sell_order_type |-> "buy"]
        balanced == [buy_metric |-> "p35", buy_order_type |-> "sell",
                     sell_metric |-> "median", sell_order_type |-> "sell"]
        aggressive == [buy_metric |-> "min", buy_order_type |-> "sell",
                       sell_metric |-> "min", sell_order_type |-> "sell"]
    IN  CASE strategy = "conservative" -> conservative
          [] strategy = "balanced" -> balanced
          [] strategy = "aggressive" -> aggressive
          [] OTHER -> balanced

\* float(order.get("platinum", 0)) raises on some order
FloatRaises(orders) == \E i \in DOMAIN orders : ~orders[i].numeric

\* statistics.median of a non-empty list
median(prices) ==
    LET s == sorted(prices)
        n == Len(s)
    IN  IF n % 2 = 1 THEN s[(n + 1) \div 2]
        ELSE (s[n \div 2] + s[n \div 2 + 1]) \div 2

\* metric[1:] of a metric name "pNN"
PercentileOf(metric) ==
    CASE metric = "p20" -> 20
      [] metric = "p35" -> 35
      [] metric = "p50" -> 50
      [] metric = "p65" -> 65
      [] OTHER -> 0

\* metric.startswith("p"), on the metric names in use
IsPercentileName(metric) == metric \in {"p20", "p35", "p50", "p65"}

PricesOf(orders) == [i \in DOMAIN orders |-> orders[i].platinum * Scale]

\* A variant that keeps the zero prices.
CalculateMetricKeepingZero(orders, metric) ==
    IF orders = <<>> THEN 0
    ELSE LET prices == SelectSeq(PricesOf(orders), LAMBDA p : p >= 0)
         IN  IF prices = <<>> THEN 0
             ELSE IF metric = "median" THEN median(prices)
             ELSE IF metric = "max" THEN sorted(prices)[Len(prices)]
             ELSE IF metric = "min" THEN sorted(prices)[1]
             ELSE IF IsPercentileName(metric)
                  THEN calculate_percentile(prices, PercentileOf(metric))
             ELSE 0

calculate_metric(orders, metric) ==
    IF orders = <<>> THEN 0
    ELSE LET prices == SelectSeq(PricesOf(orders), LAMBDA p : p > 0)
         IN  IF prices = <<>> THEN 0
             ELSE IF metric = "median" THEN median(prices)
             ELSE IF metric = "max" THEN sorted(prices)[Len(prices)]
             ELSE IF metric = "min" THEN sorted(prices)[1]
             ELSE IF IsPercentileName(metric)
                  THEN calculate_percentile(prices, PercentileOf(metric))
             ELSE 0

calculate_part_price(orders, strategy, is_buying) ==
    LET params == get_strategy_params(strategy)
        order_type == IF is_buying THEN params.buy_order_type ELSE params.sell_order_type
        metric == IF is_buying THEN params.buy_metric ELSE params.sell_metric
    IN  [price |-> calculate_metric(orders, metric),
         source |-> order_type \o "_" \o metric]

\* A quotient of two amounts, kept exact
Ratio(num, den) == [num |-> num, den |-> den]

\* A variant that takes the margin over the set price.
CalculateArbitrageOverSet(part_prices, set_price, set_source, platform_fee_pct) ==
    LET total_parts_cost == SumSeq([i \in DOMAIN part_prices |-> part_prices[i].price])
        fee == (set_price * platform_fee_pct) \div Scale
        profit_plat == set_price - total_parts_cost - fee
    IN  IF total_parts_cost = 0
        THEN [parts_cost |-> 0, set_price |-> set_price, profit_plat |-> 0,
              profit_margin |-> Ratio(0, 1), fee |-> 0]
        ELSE [parts_cost |-> total_parts_cost, set_price |-> set_price,
              profit_plat |-> profit_plat,
              profit_margin |-> Ratio(profit_plat, Max(set_price, 1)),
              fee |-> fee]

\* part_prices: a sequence of [price, source] records; the amounts and the fee
\* rate in hundredths, the margin as the quotient profit_plat / total_parts_cost
calculate_arbitrage(part_prices, set_price, set_source, platform_fee_pct) ==
    LET total_parts_cost == SumSeq([i \in DOMAIN part_prices |-> part_prices[i].price])
        fee == (set_price * platform_fee_pct) \div Scale
        profit_plat == set_price - total_parts_cost - fee
    IN  IF total_parts_cost = 0
        THEN [parts_cost |-> 0, set_price |-> set_price, profit_plat |-> 0,
              profit_margin |-> Ratio(0, 1), fee |-> 0]
        ELSE [parts_cost |-> total_parts_cost, set_price |-> set_price,
              profit_plat |-> profit_plat,
              profit_margin |-> Ratio(profit_plat, total_parts_cost),
              fee |-> fee]

-----------------------------------------------------------------------------
(* The doubles of pricing.py.  A price, a cost, a fee, a profit and a margin are
   Python floats: IEEE 754 binary64, every operation rounded to the nearest
   value of 53 significant bits, a tie to the even one.  A double is kept here
   as its exact value: [neg, m, e] stands for m * 2^e, negated when neg, with
   the natural number m as the sequence of its digits in base 2^15, the lowest
   first and without leading zeros. *)

LimbBase == Pow2(15)

\* The value of an expression that is bound once and used several times is
\* written as the one element of a set: x \in {e} binds x to the value of e.
The(S) == CHOOSE v \in S : TRUE

RECURSIVE NatOf(_)
NatOf(n) == IF n = 0 THEN <<>> ELSE <<n % LimbBase>> \o NatOf(n \div LimbBase)

RECURSIVE IntOf(_)
IntOf(a) == IF a = <<>> THEN 0 ELSE Head(a) + LimbBase * IntOf(Tail(a))

\* The digit of weight LimbBase^(i - 1)
Digit(a, i) == IF i <= Len(a) THEN a[i] ELSE 0

RECURSIVE TrimLen(_, _)
TrimLen(a, i) == IF i = 0 THEN 0 ELSE IF a[i] # 0 THEN i ELSE TrimLen(a, i - 1)

\* a without its leading zeros
Trim(a) == The({ SubSeq(x, 1, TrimLen(x, Len(x))) : x \in {a} })

RECURSIVE NatAddCarry(_, _, _, _)
NatAddCarry(a, b, i, carry) ==
    IF i > Len(a) /\ i > Len(b) THEN (IF carry = 0 THEN <<>> ELSE <<carry>>)
    ELSE <<(Digit(a, i) + Digit(b, i) + carry) % LimbBase>>
         \o NatAddCarry(a, b, i + 1, (Digit(a, i) + Digit(b, i) + carry) \div LimbBase)

NatAdd(a, b) == The({ NatAddCarry(x, y, 1, 0) : x \in {a}, y \in {b} })

\* a - b for a >= b
RECURSIVE NatSubBorrow(_, _, _, _)
NatSubBorrow(a, b, i, borrow) ==
    IF i > Len(a) THEN <<>>
    ELSE <<(a[i] - Digit(b, i) - borrow + LimbBase) % LimbBase>>
         \o NatSubBorrow(a, b, i + 1, IF a[i] - Digit(b, i) - borrow < 0 THEN 1 ELSE 0)

NatSub(a, b) == The({ Trim(NatSubBorrow(x, y, 1, 0)) : x \in {a}, y \in {b} })

\* -1, 0 or 1 as a is less than, equal to or greater than b
RECURSIVE NatCmpFrom(_, _, _)
NatCmpFrom(a, b, i) ==
    IF i = 0 THEN 0
    ELSE IF a[i] < b[i] THEN -1
    ELSE IF a[i] > b[i] THEN 1
    ELSE NatCmpFrom(a, b, i - 1)

NatCmp(a, b) ==
    The({ IF Len(x) < Len(y) THEN -1
          ELSE IF Len(x) > Len(y) THEN 1
          ELSE NatCmpFrom(x, y, Len(x)) : x \in {a}, y \in {b} })

\* a * k + carry for a digit k
RECURSIVE NatMulDigitFrom(_, _, _, _)
NatMulDigitFrom(a, k, i, carry) ==
    IF i > Len(a) THEN (IF carry = 0 THEN <<>> ELSE <<carry>>)
    ELSE <<(a[i] * k + carry) % LimbBase>>
         \o NatMulDigitFrom(a, k, i + 1, (a[i] * k + carry) \div LimbBase)

NatMulDigit(a, k, carry) ==
    The({ NatMulDigitFrom(x, y, 1, carry) : x \in {a}, y \in {k} })

RECURSIVE NatMulFrom(_, _, _)
NatMulFrom(a, b, j) ==
    IF j > Len(b) THEN <<>>
    ELSE NatAdd(NatMulDigit(a, b[j], 0), <<0>> \o NatMulFrom(a, b, j + 1))

NatMul(a, b) == The({ Trim(NatMulFrom(x, y, 1)) : x \in {a}, y \in {b} })

\* a * 2^k
ShiftLeft(a, k) ==
    The({ IF x = <<>> THEN <<>>
          ELSE [i \in 1..(n \div 15) |-> 0] \o Trim(NatMulDigit(x, Pow2(n % 15), 0))
          : x \in {a}, n \in {k} })

\* a \div 2^k
ShiftRight(a, k) ==
    The({ LET d == SubSeq(x, (n \div 15) + 1, Len(x))
              p == Pow2(n % 15)
          IN  Trim([i \in 1..Len(d) |->
                      (d[i] \div p)
                      + (IF i < Len(d) THEN (d[i + 1] % p) * (LimbBase \div p) ELSE 0)])
          : x \in {a}, n \in {k} })

RECURSIVE BitLenInt(_)
BitLenInt(n) == IF n = 0 THEN 0 ELSE 1 + BitLenInt(n \div 2)

\* int.bit_length
BitLen(a) ==
    The({ IF x = <<>> THEN 0 ELSE 15 * (Len(x) - 1) + BitLenInt(x[Len(x)]) : x \in {a} })

IsOdd(a) == The({ x # <<>> /\ x[1] % 2 = 1 : x \in {a} })

\* The largest digit t + s, s < 2 * bit, with d * (t + s) <= n
RECURSIVE QuotientDigit(_, _, _, _)
QuotientDigit(n, d, t, bit) ==
    IF bit = 0 THEN t
    ELSE IF NatCmp(Trim(NatMulDigit(d, t + bit, 0)), n) <= 0
         THEN QuotientDigit(n, d, t + bit, bit \div 2)
         ELSE QuotientDigit(n, d, t, bit \div 2)

\* Long division of n by d, digit by digit from the highest: the quotient and
\* the remainder of the digits i + 1 .. Len(n) are q and r
RECURSIVE NatDivFrom(_, _, _, _, _)
NatDivFrom(n, d, i, q, r) ==
    IF i = 0 THEN [q |-> Trim(q), r |-> r]
    ELSE The({ The({ The({ NatDivFrom(n, d, i - 1, q2, r3)
                           : q2 \in {<<t>> \o q},
                             r3 \in {NatSub(r2, Trim(NatMulDigit(d, t, 0)))} })
                     : t \in {IF Len(d) = 1 THEN IntOf(r2) \div d[1]
                              ELSE QuotientDigit(r2, d, 0, LimbBase \div 2)} })
               : r2 \in {Trim(<<n[i]>> \o r)} })

NatDivMod(n, d) == The({ NatDivFrom(x, y, Len(x), <<>>, <<>>) : x \in {n}, y \in {d} })

\* q rounded to the nearest integer where r is what lies below it and half the
\* half of a unit: a tie goes to the even neighbour
NearestEven(q, r, half) ==
    The({ IF c > 0 \/ (c = 0 /\ IsOdd(q)) THEN NatAdd(q, <<1>>) ELSE q
          : c \in {NatCmp(r, half)} })

\* The double nearest to m * 2^e: 53 significant bits
Round53(neg, m, e) ==
    The({ LET k == BitLen(x) - 53
          IN  IF k <= 0 THEN [neg |-> neg, m |-> x, e |-> e]
              ELSE The({ [neg |-> neg,
                          m |-> NearestEven(q, NatSub(x, ShiftLeft(q, k)),
                                            ShiftLeft(<<1>>, k - 1)),
                          e |-> e + k]
                         : q \in {ShiftRight(x, k)} })
          : x \in {m} })

\* float(n) of an integer n
DoubleOf(n) ==
    The({ [neg |-> v < 0, m |-> NatOf(IF v < 0 THEN -v ELSE v), e |-> 0] : v \in {n} })

\* x + y
DoubleAdd(x, y) ==
    The({ LET e == Min(u.e, v.e)
          IN  The({ IF u.neg = v.neg THEN Round53(u.neg, NatAdd(a, b), e)
                    ELSE IF NatCmp(a, b) >= 0 THEN Round53(u.neg, NatSub(a, b), e)
                    ELSE Round53(v.neg, NatSub(b, a), e)
                    : a \in {ShiftLeft(u.m, u.e - e)}, b \in {ShiftLeft(v.m, v.e - e)} })
          : u \in {x}, v \in {y} })

\* x - y
DoubleSub(x, y) == DoubleAdd(x, [y EXCEPT !.neg = ~@])

\* x * y
DoubleMul(x, y) ==
    The({ Round53(u.neg # v.neg, NatMul(u.m, v.m), u.e + v.e) : u \in {x}, v \in {y} })

\* x / y for y other than 0: the quotient of the mantissas is taken to 55 bits
\* or more, and a bit below them tells whether a remainder is left
DoubleDiv(x, y) ==
    The({ LET k == Max(0, 55 + BitLen(v.m) - BitLen(u.m))
          IN  IF u.m = <<>> THEN DoubleOf(0)
              ELSE The({ Round53(u.neg # v.neg,
                                 NatAdd(NatMulDigit(d.q, 2, 0),
                                        IF d.r = <<>> THEN <<>> ELSE <<1>>),
                                 u.e - v.e - k - 1)
                         : d \in {NatDivMod(ShiftLeft(u.m, k), v.m)} })
          : u \in {x}, v \in {y} })

\* int(x) for x >= 0
DoubleTrunc(x) ==
    The({ IntOf(IF u.e >= 0 THEN ShiftLeft(u.m, u.e) ELSE ShiftRight(u.m, -u.e))
          : u \in {x} })

\* A variant that cuts the digits off instead of rounding.
RoundDoubleDown(x, scale) ==
    The({ The({ The({ IF u.neg
                      THEN (IF u.e < 0 /\ ShiftLeft(q, -u.e) # m
                            THEN -IntOf(q) - 1 ELSE -IntOf(q))
                      ELSE IntOf(q)
                      : q \in {IF u.e >= 0 THEN ShiftLeft(m, u.e) ELSE ShiftRight(m, -u.e)} })
                : m \in {NatMulDigit(u.m, scale, 0)} })
          : u \in {x} })

\* round(x, ndigits) as the integer of its units, scale = 10^ndigits: Python
\* rounds the exact value of the double, a tie to the even neighbour
RoundDouble(x, scale) ==
    The({ The({ The({ IF u.neg THEN -IntOf(n) ELSE IntOf(n)
                      : n \in {IF u.e >= 0 THEN ShiftLeft(m, u.e)
                               ELSE The({ NearestEven(q, NatSub(m, ShiftLeft(q, -u.e)),
                                                      ShiftLeft(<<1>>, -u.e - 1))
                                          : q \in {ShiftRight(m, -u.e)} })} })
                : m \in {NatMulDigit(u.m, scale, 0)} })
          : u \in {x} })

\* calculate_percentile on the sorted doubles of integer prices
DoublePercentile(sorted_values, percentile) ==
    The({ The({ LET n == Len(s)
                    lower_idx == DoubleTrunc(rank)
                    upper_idx == Min(lower_idx + 1, n - 1)
                    fraction == DoubleSub(rank, DoubleOf(lower_idx))
                IN  DoubleAdd(DoubleOf(s[lower_idx + 1]),
                              DoubleMul(fraction, DoubleSub(DoubleOf(s[upper_idx + 1]),
                                                            DoubleOf(s[lower_idx + 1]))))
                : rank \in {DoubleMul(DoubleDiv(DoubleOf(percentile), DoubleOf(100)),
                                      DoubleOf(Len(s) - 1))} })
          : s \in {sorted_values} })

\* calculate_metric as the double it returns
DoubleMetric(orders, metric) ==
    The({ LET n == Len(s)
          IN  IF s = <<>> THEN DoubleOf(0)
              ELSE IF metric = "median"
                   THEN IF n % 2 = 1 THEN DoubleOf(s[(n + 1) \div 2])
                        ELSE DoubleDiv(DoubleAdd(DoubleOf(s[n \div 2]),
                                                 DoubleOf(s[n \div 2 + 1])),
                                       DoubleOf(2))
              ELSE IF metric = "max" THEN DoubleOf(s[n])
              ELSE IF metric = "min" THEN DoubleOf(s[1])
              ELSE IF IsPercentileName(metric) THEN DoublePercentile(s, PercentileOf(metric))
              ELSE DoubleOf(0)
          : s \in {sorted(SelectSeq([i \in DOMAIN orders |-> orders[i].platinum],
                                    LAMBDA p : p > 0))} })

\* sum() of doubles, from the left
RECURSIVE DoubleSum(_, _, _)
DoubleSum(start, values, i) ==
    IF i > Len(values) THEN start
    ELSE The({ DoubleSum(total, values, i + 1) : total \in {DoubleAdd(start, values[i])} })

\* calculate_arbitrage on doubles: the profit and the margin before round().
\* The fee rate is the double nearest to platform_fee_pct hundredths.
DoubleArbitrage(prices, set_price, platform_fee_pct) ==
    The({ The({ IF total_parts_cost.m = <<>>
                THEN [profit_plat |-> DoubleOf(0), profit_margin |-> DoubleOf(0)]
                ELSE The({ [profit_plat |-> profit_plat,
                            profit_margin |-> DoubleDiv(profit_plat, total_parts_cost)]
                           : profit_plat \in
                               {DoubleSub(DoubleSub(price, total_parts_cost),
                                          DoubleMul(price,
                                                    DoubleDiv(DoubleOf(platform_fee_pct),
                                                              DoubleOf(Scale))))} })
                : total_parts_cost \in {DoubleSum(DoubleOf(0), values, 1)} })
          : values \in {prices}, price \in {set_price} })


\* market_orders.get(item_name, [])
GetOrders(market_orders, item_name) ==
    IF item_name \in DOMAIN market_orders THEN market_orders[item_name] ELSE <<>>

\* part.lower().replace(' ', '_') on the part names of the catalog
PartSlug(part) ==
    CASE part = "Blueprint" -> "blueprint"
      [] part = "Neuroptics" -> "neuroptics"
      [] part = "Chassis" -> "chassis"
      [] part = "Systems" -> "systems"
      [] part = "Upper Limb" -> "upper_limb"
      [] OTHER -> part

PartItemName(frame_id, part) == frame_id \o "_" \o PartSlug(part)
SetItemName(frame_id) == frame_id \o "_set"

\* A variant that takes the last of the cheapest sell orders.
CheapestSellerLast(orders) ==
    LET sell_orders == SelectSeq(orders, LAMBDA o : o.order_type = "sell")
    IN  IF sell_orders = <<>> THEN "User"
        ELSE LET i == CHOOSE i \in DOMAIN sell_orders :
                          /\ \A j \in DOMAIN sell_orders :
                                sell_orders[i].platinum <= sell_orders[j].platinum
                          /\ \A j \in (i + 1)..Len(sell_orders) :
                                sell_orders[j].platinum > sell_orders[i].platinum
             IN  sell_orders[i].ingame_name

\* The seller of the cheapest sell order, the first of them on a tie
\* (sorted() is stable); "User" when there is no sell order.
CheapestSeller(orders) ==
    LET sell_orders == SelectSeq(orders, LAMBDA o : o.order_type = "sell")
    IN  IF sell_orders = <<>> THEN "User"
        ELSE LET i == CHOOSE i \in DOMAIN sell_orders :
                          /\ \A j \in DOMAIN sell_orders :
                                sell_orders[i].platinum <= sell_orders[j].platinum
                          /\ \A j \in 1..(i - 1) :
                                sell_orders[j].platinum > sell_orders[i].platinum
             IN  sell_orders[i].ingame_name

\* A variant of the parts loop that keeps a part whatever its price.
RECURSIVE PartsKeepingUnpriced(_, _, _, _)
PartsKeepingUnpriced(frame_id, parts, market_orders, strategy) ==
    IF parts = <<>> THEN <<>>
    ELSE LET part == Head(parts)
             orders == GetOrders(market_orders, PartItemName(frame_id, part))
             pp == calculate_part_price(orders, strategy, TRUE)
             rest == PartsKeepingUnpriced(frame_id, Tail(parts), market_orders, strategy)
         IN  IF orders # <<>>
             THEN <<[name |-> part, price |-> pp.price, source |-> pp.source,
                     seller |-> CheapestSeller(orders)]>> \o rest
             ELSE rest

\* The parts loop of calculate_frame_opportunity: the parts that have orders and a
\* positive price, in part order, each with its price, source and seller.
RECURSIVE PartsWithSellers(_, _, _, _)
PartsWithSellers(frame_id, parts, market_orders, strategy) ==
    IF parts = <<>> THEN <<>>
    ELSE LET part == Head(parts)
             orders == GetOrders(market_orders, PartItemName(frame_id, part))
             pp == calculate_part_price(orders, strategy, TRUE)
             rest == PartsWithSellers(frame_id, Tail(parts), market_orders, strategy)
         IN  IF orders # <<>> /\ pp.price > 0
             THEN <<[name |-> part, price |-> pp.price, source |-> pp.source,
                     seller |-> CheapestSeller(orders)]>> \o rest
             ELSE rest

\* A variant without the check of the set price.
SetPriceNeverMissing(set_price) == FALSE

\* Whether the set's price counts as missing (pricing.py:226).
SetPriceMissing(set_price) == set_price = 0

\* The body of calculate_frame_opportunity, with the value it reads from
\* settings.platform_fee_pct.  The result is [kind |-> "opp", opp |-> the
\* dictionary], [kind |-> "none"] (the function returns None) or
\* [kind |-> "raise"] (an exception leaves it).
FrameOpportunity(frame, market_orders, strategy, platform, fee_pct) ==
    LET set_orders == GetOrders(market_orders, SetItemName(frame.id))
        sp == calculate_part_price(set_orders, strategy, FALSE)
        parts_with_sellers == PartsWithSellers(frame.id, frame.parts, market_orders, strategy)
        params == get_strategy_params(strategy)
        arb == DoubleArbitrage(
                   [i \in DOMAIN parts_with_sellers |->
                       DoubleMetric(GetOrders(market_orders,
                                              PartItemName(frame.id, parts_with_sellers[i].name)),
                                    params.buy_metric)],
                   DoubleMetric(set_orders, params.sell_metric), fee_pct)
    IN  IF \E i \in DOMAIN frame.parts :
              FloatRaises(GetOrders(market_orders, PartItemName(frame.id, frame.parts[i])))
        THEN [kind |-> "raise"]
        ELSE IF set_orders = <<>> THEN [kind |-> "none"]
        ELSE IF FloatRaises(set_orders) THEN [kind |-> "raise"]
        ELSE IF SetPriceMissing(sp.price) THEN [kind |-> "none"]
        ELSE [kind |-> "opp",
              opp |-> [frame_id |-> frame.id, frame_name |-> frame.name,
                       platform |-> platform, strategy |-> strategy,
                       item_type |-> frame.item_type, parts |-> parts_with_sellers,
                       full_set_price |-> sp.price,
                       profit_plat |-> RoundDouble(arb.profit_plat, Scale),
                       profit_margin |-> RoundDouble(arb.profit_margin, MarginScale),
                       seller |-> CheapestSeller(set_orders)]]


-----------------------------------------------------------------------------
(* The catalog and the marketplace *)

Frame(id, name, parts) == [id |-> id, name |-> name, parts |-> parts, item_type |-> "warframe"]

\* The first frames of DEFAULT_FRAMES, with one part each.
DefaultCatalog ==
    << Frame("mesa_prime", "Mesa Prime", <<"Blueprint">>),
       Frame("volt_prime", "Volt Prime", <<"Blueprint">>) >>

Catalogs == { <<>>, DefaultCatalog }

\* The item keys of a catalog in fetch order: each frame's parts, then its set.
RECURSIVE FetchKeys(_)
FetchKeys(frames) ==
    IF frames = <<>> THEN <<>>
    ELSE [i \in DOMAIN Head(frames).parts |-> PartItemName(Head(frames).id, Head(frames).parts[i])]
         \o <<SetItemName(Head(frames).id)>> \o FetchKeys(Tail(frames))

ItemKeys == { FetchKeys(DefaultCatalog)[i] : i \in DOMAIN FetchKeys(DefaultCatalog) }
SetKeys == { SetItemName(DefaultCatalog[i].id) : i \in DOMAIN DefaultCatalog }

\* What the marketplace holds for a key: "fail" (every attempt fails), or an order
\* book.  "good": usable orders among unusable ones; "zero": only zero-priced
\* orders; "bad": an order whose price is not a number.
\* "cheap": a set offered for less than its part.
\* For one frame, the replies for its part and for its set: the first frame of the
\* catalog meets the failures, the frames after it the cheap set.
FrameSituations(i) ==
    IF i = 1
    THEN { <<"good", "good">>, <<"fail", "good">>, <<"fail", "fail">>,
           <<"good", "zero">>, <<"good", "bad">> }
    ELSE { <<"good", "good">>, <<"fail", "fail">>, <<"good", "cheap">> }

Replies == {"fail", "good", "zero", "bad", "cheap"}

Markets ==
    { m \in [ItemKeys -> Replies] :
        \A i \in DOMAIN DefaultCatalog :
            <<m[PartItemName(DefaultCatalog[i].id, DefaultCatalog[i].parts[1])],
              m[SetItemName(DefaultCatalog[i].id)]>> \in FrameSituations(i) }

\* The markets that the progress of the loop is followed on.
FairMarkets ==
    { m \in Markets :
        \/ \A k \in ItemKeys : m[k] = "good"
        \/ \A k \in ItemKeys : m[k] = "fail"
        \/ m["mesa_prime_set"] = "bad" /\ m["volt_prime_set"] = "good" }

Book(item_name, reply) ==
    LET base == IF item_name \in SetKeys
                THEN (IF item_name = "mesa_prime_set" THEN 100 ELSE 20)
                ELSE 15
    IN  CASE reply = "good" ->
               << Order("sell", TRUE, "ingame", "pc", TRUE, base + 10, "alice"),
                  Order("sell", TRUE, "ingame", "pc", FALSE, base, "bob"),
                  Order("sell", TRUE, "offline", "pc", TRUE, 1, "carol"),
                  Order("buy", TRUE, "ingame", "pc", TRUE, base + 50, "dave"),
                  Order("sell", TRUE, "ingame", "ps4", TRUE, 2, "erin"),
                  Order("sell", TRUE, "ingame", "pc", TRUE, base, "frank") >>
          [] reply = "cheap" ->
               << Order("sell", TRUE, "ingame", "pc", TRUE, 10, "alice") >>
          [] reply = "zero" ->
               << Order("sell", TRUE, "ingame", "pc", TRUE, 0, "alice") >>
          [] reply = "bad" ->
               << Order("sell", TRUE, "ingame", "pc", TRUE, base, "alice"),
                  Malformed(Order("sell", TRUE, "ingame", "pc", TRUE, 0, "bob")) >>
          [] OTHER -> <<>>

\* The markets of the hub's runs: every book good, or one set offered for less
\* than its part.
HubMarkets ==
    { [k \in ItemKeys |-> "good"],
      [k \in ItemKeys |-> IF k = "volt_prime_set" THEN "cheap" ELSE "good"] }

\* What _request_with_retry ends with for a key of the market.
RetryResult(item_name, reply) ==
    IF reply = "fail" THEN [kind |-> "raise"]
    ELSE [kind |-> "return", data |-> Book(item_name, reply)]

\* A variant without the try/except: the exception of the request leaves the call.
GetItemOrdersUncaught(result) ==
    IF result.kind = "return" THEN [kind |-> "return", orders |-> result.data]
    ELSE [kind |-> "raise", orders |-> <<>>]

\* get_item_orders: the data of the request, or the empty payload when it raised.
get_item_orders(result) ==
    IF result.kind = "return" THEN [kind |-> "return", orders |-> result.data]
    ELSE [kind |-> "return", orders |-> <<>>]


-----------------------------------------------------------------------------
(* The scheduler: scheduler.py, and the application's lifespan: main.py *)

TaskIds == {"loop", "initial"}

\* No message
NoMessage == [type |-> "none", opportunities |-> <<>>, reason |-> "", timestamp |-> NoUpdate]

\* No broadcast is in progress. The record holds the message of the broadcast in
\* progress, the position of its iterator, the connection whose send is awaited,
\* the list of the connections whose send failed, the alerts _check_alerts has
\* still to broadcast, and for the broadcasts that have returned, what each did.
NoBroadcast ==
    [pc |-> "idle", message |-> NoMessage, index |-> 0, connection |-> 0, disconnected |-> <<>>,
     atStart |-> {}, delivered |-> <<>>, failed |-> {}, sent |-> <<>>,
     alerts |-> <<>>, returned |-> <<>>]

\* No task. The record of a task holds its position, the locals of its cycle and
\* the broadcasts of that cycle.
NoTask ==
    [pc |-> "none", cycle |-> NoUpdate, frames |-> <<>>, idx |-> 0,
     market_orders |-> <<>>, opportunities |-> <<>>, must_cancel |-> FALSE,
     failed |-> FALSE, cancelledAt |-> "none", ncycles |-> 0, store_failed |-> FALSE,
     broadcast |-> NoBroadcast]

\* The positions at which a task is inside fetch_and_process.
CyclePcs == {"catalog", "fetch", "compute", "store", "publish", "broadcast"}
InCycle(t) == tasks[t].pc \in CyclePcs
Finished(t) == tasks[t].pc \in {"done", "cancelled"}

NoRead == [pending |-> FALSE, min_profit |-> 0, min_margin |-> 0, result |-> <<>>]

\* A request handler that calls get_current_opportunities runs to its return
\* without an await (routes.py:79-85): nothing else runs in between.
NoHandlerRunning == ~lastRead.pending

\* A task takes steps once lifespan() has yielded, while the event loop lives and
\* no cancellation is pending.
CanStep(t) ==
    /\ appPc \in {"serving", "stopping", "stopped"}
    /\ ~tasks[t].must_cancel
    /\ NoHandlerRunning

\* The keys fetched for one frame.
KeysOf(frame) == { FetchKeys(<<frame>>)[i] : i \in DOMAIN FetchKeys(<<frame>>) }

\* What a cycle whose catalog holds this frame alone collects and computes, on
\* market m.
AloneOrders(m, frame) ==
    [k \in KeysOf(frame) |->
        filter_orders(settings.platform,
                      get_item_orders(RetryResult(k, m[k])).orders, "sell")]

\* FrameOpportunity on what a cycle collects for each frame of the catalog on
\* each market, at each fee rate: these results are computed once.
CollectedResults ==
    { [frame |-> DefaultCatalog[i], market_orders |-> AloneOrders(m, DefaultCatalog[i]),
       fee_pct |-> fee_pct,
       result |-> FrameOpportunity(DefaultCatalog[i], AloneOrders(m, DefaultCatalog[i]),
                                   settings.strategy, settings.platform, fee_pct)] :
        m \in Markets, i \in DOMAIN DefaultCatalog, fee_pct \in FeeRates }

\* calculate_frame_opportunity under the configured fee rate: the value of
\* FrameOpportunity on the frame and its orders, taken from CollectedResults
\* where it is held there
calculate_frame_opportunity(frame, market_orders, strategy, platform) ==
    LET own == [k \in KeysOf(frame) \cap DOMAIN market_orders |-> market_orders[k]]
        held == { e \in CollectedResults :
                    /\ e.frame = frame
                    /\ e.fee_pct = env_platform_fee_pct
                    /\ e.market_orders = own }
    IN  IF strategy = settings.strategy /\ platform = settings.platform /\ held # {}
        THEN (CHOOSE e \in held : TRUE).result
        ELSE FrameOpportunity(frame, market_orders, strategy, platform, env_platform_fee_pct)

\* A variant that puts each opportunity at the head of the list.
RECURSIVE OpportunitiesNewestFirst(_, _, _)
OpportunitiesNewestFirst(frames, market_orders, now) ==
    IF frames = <<>> THEN <<>>
    ELSE LET r == calculate_frame_opportunity(Head(frames), market_orders,
                                              settings.strategy, settings.platform)
             rest == OpportunitiesNewestFirst(Tail(frames), market_orders, now)
         IN  IF r.kind = "opp"
             THEN rest \o <<[last_updated |-> now] @@ r.opp>>
             ELSE rest

\* A variant without the try/except around one frame's calculation: the first
\* frame whose calculation raises ends the loop.
RECURSIVE OpportunitiesUntilRaise(_, _, _)
OpportunitiesUntilRaise(frames, market_orders, now) ==
    IF frames = <<>> THEN <<>>
    ELSE LET r == calculate_frame_opportunity(Head(frames), market_orders,
                                              settings.strategy, settings.platform)
             rest == OpportunitiesUntilRaise(Tail(frames), market_orders, now)
         IN  IF r.kind = "raise" THEN <<>>
             ELSE IF r.kind = "opp" THEN <<[last_updated |-> now] @@ r.opp>> \o rest
             ELSE rest

\* The opportunities loop of fetch_and_process (scheduler.py:80-102): every frame
\* whose calculation gives an opportunity, stamped, in catalog order; a frame whose
\* calculation raises is logged and left out.
RECURSIVE OpportunitiesOf(_, _, _)
OpportunitiesOf(frames, market_orders, now) ==
    IF frames = <<>> THEN <<>>
    ELSE LET r == calculate_frame_opportunity(Head(frames), market_orders,
                                              settings.strategy, settings.platform)
             rest == OpportunitiesOf(Tail(frames), market_orders, now)
         IN  IF r.kind = "opp"
             THEN <<[last_updated |-> now] @@ r.opp>> \o rest
             ELSE rest

\* _store_snapshots: the rows one opportunity list adds.
SnapshotRows(opportunities, now) ==
    { [table |-> "set_snapshots", frame_id |-> opportunities[i].frame_id,
       part_name |-> "", strategy |-> opportunities[i].strategy,
       metric_type |-> "", price |-> opportunities[i].full_set_price,
       platform |-> opportunities[i].platform, ts |-> now] : i \in DOMAIN opportunities }
    \cup
    UNION { { [table |-> "price_snapshots", frame_id |-> opportunities[i].frame_id,
               part_name |-> opportunities[i].parts[j].name,
               strategy |-> opportunities[i].strategy,
               metric_type |-> opportunities[i].parts[j].source,
               price |-> opportunities[i].parts[j].price,
               platform |-> opportunities[i].platform, ts |-> now]
              : j \in DOMAIN opportunities[i].parts } : i \in DOMAIN opportunities }

\* ws_manager.py: the two message shapes
MarketUpdate(opportunities, now) ==
    [type |-> "market_update", opportunities |-> opportunities, reason |-> "",
     timestamp |-> now]
OpportunityAlert(opportunity, reason, now) ==
    [type |-> "opportunity_alert", opportunities |-> <<opportunity>>, reason |-> reason,
     timestamp |-> now]

\* _check_alerts: the alerts one opportunity list raises.
AlertsOf(opportunities, now) ==
    { OpportunityAlert(opportunities[i], "crossed_profit_threshold", now) :
        i \in { j \in DOMAIN opportunities :
                  opportunities[j].profit_plat >= AlertThreshold * Scale } }

\* A variant that extends the list in place instead of replacing it.
ReplaceStateExtending(current, opportunities) == current \o opportunities

\* self.current_opportunities = opportunities (scheduler.py:112)
ReplaceState(current, opportunities) == opportunities

\* A variant in which a failed cycle ends the loop.
LoopEndsOnFailure(failed) == IF failed THEN "done" ELSE "sleep"

\* Where _run_loop goes after fetch_and_process: the cycle body catches and logs
\* every exception (scheduler.py:123), and so does the loop (scheduler.py:174);
\* then the loop sleeps the refresh interval.
LoopAfterCycle(failed) == "sleep"

\* The end of fetch_and_process in task t.
EndCycle(t, failed) ==
    [tasks[t] EXCEPT !.pc = IF t = "loop" THEN LoopAfterCycle(failed) ELSE "done",
                     !.failed = failed]

\* A variant that keeps an entry when either threshold is met.
RECURSIVE GetCurrentOpportunitiesEither(_, _, _)
GetCurrentOpportunitiesEither(current, min_profit, min_margin) ==
    IF current = <<>> THEN <<>>
    ELSE (IF Head(current).profit_plat >= min_profit
             \/ Head(current).profit_margin >= min_margin
          THEN <<Head(current)>> ELSE <<>>)
         \o GetCurrentOpportunitiesEither(Tail(current), min_profit, min_margin)

\* get_current_opportunities: the comprehension over self.current_opportunities
RECURSIVE get_current_opportunities(_, _, _)
get_current_opportunities(current, min_profit, min_margin) ==
    IF current = <<>> THEN <<>>
    ELSE (IF Head(current).profit_plat >= min_profit
             /\ Head(current).profit_margin >= min_margin
          THEN <<Head(current)>> ELSE <<>>)
         \o get_current_opportunities(Tail(current), min_profit, min_margin)

-----------------------------------------------------------------------------
(* lifespan() *)

\* await scheduler.start()
Start ==
    /\ appPc = "startup"
    /\ NoHandlerRunning
    /\ appPc' = "started"
    /\ IF ~running
       THEN /\ running' = TRUE
            /\ tasks' = [tasks EXCEPT !["loop"] = [NoTask EXCEPT !.pc = "top"]]
       ELSE UNCHANGED <<running, tasks>>
    /\ UNCHANGED <<current_opportunities, last_update, market, catalog, snapshots,
                   outbox, lastRead, rq, call, hubVars,
                   env_platform_fee_pct, ss, timed>>

\* asyncio.create_task(scheduler.fetch_and_process())
SpawnInitialFetch ==
    /\ appPc = "started"
    /\ NoHandlerRunning
    /\ appPc' = "serving"
    /\ tasks' = [tasks EXCEPT !["initial"] = [NoTask EXCEPT !.pc = "top"]]
    /\ UNCHANGED <<running, current_opportunities, last_update, market, catalog,
                   snapshots, outbox, lastRead, rq, call, hubVars,
                   env_platform_fee_pct, ss, timed>>

\* scheduler.stop(), up to its await: running = False; self._task.cancel()
StopCall ==
    /\ appPc = "serving"
    /\ NoHandlerRunning
    /\ appPc' = "stopping"
    /\ running' = FALSE
    /\ tasks' = IF tasks["loop"].pc \notin {"none", "done", "cancelled"}
                THEN [tasks EXCEPT !["loop"].must_cancel = TRUE]
                ELSE tasks
    /\ UNCHANGED <<current_opportunities, last_update, market, catalog, snapshots,
                   outbox, lastRead, rq, call, hubVars,
                   env_platform_fee_pct, ss, timed>>

\* The CancelledError raised in the cancelled task at the await it is suspended
\* at: no except Exception clause catches it, the task ends.
TaskCancelled(t) ==
    /\ tasks[t].must_cancel
    /\ ~Finished(t)
    /\ NoHandlerRunning
    /\ tasks' = [tasks EXCEPT ![t].pc = "cancelled", ![t].cancelledAt = tasks[t].pc]
    /\ UNCHANGED <<appPc, running, current_opportunities, last_update, market, catalog,
                   snapshots, outbox, lastRead, rq, call, hubVars,
                   env_platform_fee_pct, ss, timed>>

\* scheduler.stop() returns: await self._task has ended
StopReturn ==
    /\ appPc = "stopping"
    /\ NoHandlerRunning
    /\ tasks["loop"].pc = "none" \/ Finished("loop")
    /\ appPc' = "stopped"
    /\ UNCHANGED <<running, current_opportunities, last_update, tasks, market, catalog,
                   snapshots, outbox, lastRead, rq, call, hubVars,
                   env_platform_fee_pct, ss, timed>>

\* cleanup_market_client() and the end of lifespan(): the event loop closes
Shutdown ==
    /\ appPc = "stopped"
    /\ NoHandlerRunning
    /\ appPc' = "down"
    /\ UNCHANGED <<running, current_opportunities, last_update, tasks, market, catalog,
                   snapshots, outbox, lastRead, rq, call, hubVars,
                   env_platform_fee_pct, ss, timed>>

-----------------------------------------------------------------------------
(* _run_loop and fetch_and_process *)

\* while self.running: the loop enters a cycle, or ends
LoopTop ==
    /\ tasks["loop"].pc = "top"
    /\ CanStep("loop")
    /\ IF running
       THEN /\ tasks["loop"].ncycles < MaxCycles
            /\ tasks' = [tasks EXCEPT !["loop"].pc = "catalog",
                                      !["loop"].ncycles = @ + 1,
                                      !["loop"].cycle = tasks["loop"].ncycles + 1,
                                      !["loop"].frames = <<>>,
                                      !["loop"].idx = 0,
                                      !["loop"].market_orders = <<>>,
                                      !["loop"].opportunities = <<>>,
                                      !["loop"].store_failed = FALSE]
       ELSE tasks' = [tasks EXCEPT !["loop"].pc = "done"]
    /\ UNCHANGED <<appPc, running, current_opportunities, last_update, market, catalog,
                   snapshots, outbox, lastRead, rq, call, hubVars,
                   env_platform_fee_pct, ss, timed>>

\* await asyncio.sleep(settings.refresh_interval_seconds) ends
LoopWake ==
    /\ tasks["loop"].pc = "sleep"
    /\ CanStep("loop")
    /\ tasks' = [tasks EXCEPT !["loop"].pc = "top"]
    /\ UNCHANGED <<appPc, running, current_opportunities, last_update, market, catalog,
                   snapshots, outbox, lastRead, rq, call, hubVars,
                   env_platform_fee_pct, ss, timed>>

\* The task of the initial fetch enters fetch_and_process
InitialBegin ==
    /\ tasks["initial"].pc = "top"
    /\ CanStep("initial")
    /\ tasks' = [tasks EXCEPT !["initial"].pc = "catalog",
                              !["initial"].cycle = InitialCycle]
    /\ UNCHANGED <<appPc, running, current_opportunities, last_update, market, catalog,
                   snapshots, outbox, lastRead, rq, call, hubVars,
                   env_platform_fee_pct, ss, timed>>

\* frames = await get_all_frames(): the catalog, or a database error
ReadCatalog(t) ==
    /\ tasks[t].pc = "catalog"
    /\ CanStep(t)
    /\ \E ok \in BOOLEAN :
          tasks' = [tasks EXCEPT ![t] =
                      IF ~ok THEN EndCycle(t, TRUE)
                      ELSE IF catalog = <<>> THEN EndCycle(t, FALSE)
                      ELSE [tasks[t] EXCEPT !.pc = "fetch", !.frames = catalog, !.idx = 1]]
    /\ UNCHANGED <<appPc, running, current_opportunities, last_update, market, catalog,
                   snapshots, outbox, lastRead, rq, call, hubVars,
                   env_platform_fee_pct, ss, timed>>

\* One get_item_orders of the fetch loop, with the filter and the delay after it
FetchItem(t) ==
    /\ tasks[t].pc = "fetch"
    /\ CanStep(t)
    /\ LET keys == FetchKeys(tasks[t].frames)
           item_name == keys[tasks[t].idx]
           data == get_item_orders(RetryResult(item_name, market[item_name]))
           filtered == filter_orders(settings.platform, data.orders, "sell")
       IN  tasks' = [tasks EXCEPT
                       ![t].market_orders = (item_name :> filtered) @@ @,
                       ![t].idx = @ + 1,
                       ![t].pc = IF tasks[t].idx = Len(keys) THEN "compute" ELSE "fetch"]
    /\ UNCHANGED <<appPc, running, current_opportunities, last_update, market, catalog,
                   snapshots, outbox, lastRead, rq, call, hubVars,
                   env_platform_fee_pct, ss, timed>>

\* The opportunities loop
Compute(t) ==
    /\ tasks[t].pc = "compute"
    /\ CanStep(t)
    /\ tasks' = [tasks EXCEPT
                   ![t].opportunities =
                       OpportunitiesOf(tasks[t].frames, tasks[t].market_orders, tasks[t].cycle),
                   ![t].pc = IF settings.use_db THEN "store" ELSE "publish"]
    /\ UNCHANGED <<appPc, running, current_opportunities, last_update, market, catalog,
                   snapshots, outbox, lastRead, rq, call, hubVars,
                   env_platform_fee_pct, ss, timed>>

\* A variant without the try/except around _store_snapshots: its exception
\* reaches the except clause of fetch_and_process and the cycle ends there.
AfterStoreUncaught(t, ok) ==
    IF ok THEN [tasks[t] EXCEPT !.pc = "publish"]
    ELSE [EndCycle(t, TRUE) EXCEPT !.store_failed = TRUE]

\* The task after _store_snapshots has returned or raised (scheduler.py:105-109):
\* the exception is logged and the cycle goes on.
AfterStore(t, ok) ==
    [tasks[t] EXCEPT !.pc = "publish", !.store_failed = ~ok]

\* await self._store_snapshots(opportunities): the commit, or a logged failure
StoreSnapshots(t) ==
    /\ tasks[t].pc = "store"
    /\ CanStep(t)
    /\ \E ok \in BOOLEAN :
          /\ snapshots' = IF ok
                          THEN snapshots \cup SnapshotRows(tasks[t].opportunities,
                                                           tasks[t].cycle)
                          ELSE snapshots
          /\ tasks' = [tasks EXCEPT ![t] = AfterStore(t, ok)]
    /\ UNCHANGED <<appPc, running, current_opportunities, last_update, market, catalog,
                   outbox, lastRead, rq, call, hubVars,
                   env_platform_fee_pct, ss, timed>>

\* A caller of scheduler.get_current_opportunities (routes.py)
MinProfits == {0, 10 * Scale, 90 * Scale}
MinMargins == {0, 2000}

Read ==
    /\ appPc = "serving"
    /\ NoHandlerRunning
    /\ \E min_profit \in MinProfits, min_margin \in MinMargins :
          lastRead' = [pending |-> TRUE, min_profit |-> min_profit,
                       min_margin |-> min_margin,
                       result |-> get_current_opportunities(current_opportunities,
                                                            min_profit, min_margin)]
    /\ UNCHANGED <<appPc, running, current_opportunities, last_update, tasks, market,
                   catalog, snapshots, outbox, rq, call, hubVars,
                   env_platform_fee_pct, ss, timed>>

\* The handler returns its response
ReadReturn ==
    /\ lastRead.pending
    /\ lastRead' = NoRead
    /\ UNCHANGED <<appPc, running, current_opportunities, last_update, tasks, market,
                   catalog, snapshots, outbox, rq, call, hubVars,
                   env_platform_fee_pct, ss, timed>>

-----------------------------------------------------------------------------
(* The WebSocket hub: ws_manager.py, and its callers in routes.py *)

WebSockets == 1..MaxConnections

DefaultConfig ==
    [strategy |-> "balanced", min_profit |-> 0, min_margin |-> 0, platform |-> "pc"]

\* list.remove(x): without the first occurrence of x
RECURSIVE Remove(_, _)
Remove(list, x) ==
    IF list = <<>> THEN <<>>
    ELSE IF Head(list) = x THEN Tail(list)
    ELSE <<Head(list)>> \o Remove(Tail(list), x)

Contains(list, x) == \E i \in DOMAIN list : list[i] = x

\* A disconnect that forgets the del of the stored config.
DisconnectKeepingConfig(connections, configs, websocket) ==
    [connections |-> IF Contains(connections, websocket)
                     THEN Remove(connections, websocket) ELSE connections,
     configs |-> configs]

\* ConnectionManager.disconnect, as the pair of the list and the configs after it
disconnect(connections, configs, websocket) ==
    [connections |-> IF Contains(connections, websocket)
                     THEN Remove(connections, websocket) ELSE connections,
     configs |-> [w \in DOMAIN configs \ {websocket} |-> configs[w]]]

\* The clean-up loop of broadcast: disconnect every connection whose send failed
RECURSIVE DisconnectAll(_, _, _)
DisconnectAll(connections, configs, disconnected) ==
    IF disconnected = <<>> THEN [connections |-> connections, configs |-> configs]
    ELSE LET d == disconnect(connections, configs, Head(disconnected))
         IN  DisconnectAll(d.connections, d.configs, Tail(disconnected))

\* "Send initial data" in websocket_market (routes.py:173-182): the message built
\* from scheduler.get_current_opportunities() with its default thresholds
InitialData(current, now) ==
    MarketUpdate(get_current_opportunities(current, 0, 0), now)

\* The first message sent on a websocket stays the first
FirstSent(box, ws, message) ==
    IF box[ws] = NoMessage THEN [box EXCEPT ![ws] = message] ELSE box

\* await manager.connect(websocket) and the initial data, at the start of
\* websocket_market: no await lies between the registration and the call of
\* send_json in send_personal_message, which the handler then awaits
\* (routes.py:170-182, ws_manager.py:62)
Connect(ws) ==
    /\ sockets[ws] = "new"
    /\ sockets' = [sockets EXCEPT ![ws] = "open"]
    /\ active_connections' = Append(active_connections, ws)
    /\ client_configs' = (ws :> DefaultConfig) @@ client_configs
    /\ inbox' = [inbox EXCEPT ![ws] = InitialData(current_opportunities, last_update)]
    /\ received' = [received EXCEPT
                       !.pending = (ws :> InitialData(current_opportunities, last_update))
                                   @@ @]
    /\ UNCHANGED <<schedVars, rq, call, bc>>

\* The subscriber goes away: from now on a send to it fails, and receive_text
\* in its handler raises WebSocketDisconnect
ClientCloses(ws) ==
    /\ sockets[ws] = "open"
    /\ sockets' = [sockets EXCEPT ![ws] = "closed"]
    /\ UNCHANGED <<schedVars, rq, call, active_connections, client_configs, bc, inbox,
                   received>>

\* except WebSocketDisconnect: manager.disconnect(websocket), in websocket_market,
\* raised by receive_text
HandlerDisconnect(ws) ==
    /\ sockets[ws] = "closed"
    /\ ws \notin DOMAIN received.pending
    /\ sockets' = [sockets EXCEPT ![ws] = "gone"]
    /\ LET d == disconnect(active_connections, client_configs, ws)
       IN  /\ active_connections' = d.connections
           /\ client_configs' = d.configs
    /\ UNCHANGED <<schedVars, rq, call, bc, inbox, received>>

\* A broadcast that sends each subscriber the opportunities that pass the
\* thresholds of its stored config.
MessageFilteredFor(message, configs, connection) ==
    IF message.type = "market_update" /\ connection \in DOMAIN configs
    THEN [message EXCEPT !.opportunities =
             get_current_opportunities(@, configs[connection].min_profit,
                                       configs[connection].min_margin)]
    ELSE message

\* The argument of connection.send_json in broadcast (ws_manager.py:73): the
\* one message of the call, for every connection
MessageFor(message, configs, connection) == message

\* What a broadcast that returns leaves in the record of the broadcasts
Returned(b) ==
    [message |-> b.message, atStart |-> b.atStart, delivered |-> b.delivered,
     failed |-> b.failed, sent |-> b.sent]

\* manager.broadcast(message) is entered, after the broadcasts of b
NextBroadcast(b, message, alerts, connections) ==
    [NoBroadcast EXCEPT
        !.message = message,
        !.atStart = { connections[i] : i \in DOMAIN connections },
        !.delivered = [ws \in WebSockets |-> 0],
        !.sent = [ws \in WebSockets |-> NoMessage],
        !.alerts = alerts,
        !.returned = b.returned]

\* The for loop of broadcast from its iterator position up to the next await:
\* the next connection is taken and the send to it awaited; or the list is
\* exhausted, the failed connections are disconnected and broadcast returns,
\* and with no await _check_alerts enters the broadcast of the next alert
\* (scheduler.py:119, 157-163), or the cycle has no more to broadcast.
RECURSIVE BroadcastAdvance(_, _, _)
BroadcastAdvance(b, connections, configs) ==
    IF b.index < Len(connections)
    THEN [bc |-> [b EXCEPT !.pc = "sending",
                           !.connection = connections[b.index + 1],
                           !.index = @ + 1,
                           !.sent[connections[b.index + 1]] =
                               MessageFor(b.message, configs, connections[b.index + 1])],
          connections |-> connections, configs |-> configs]
    ELSE LET d == DisconnectAll(connections, configs, b.disconnected)
             ended == [b EXCEPT !.pc = "done", !.connection = 0,
                                !.returned = Append(@, Returned(b))]
         IN  IF b.alerts = <<>>
             THEN [bc |-> ended, connections |-> d.connections, configs |-> d.configs]
             ELSE BroadcastAdvance(NextBroadcast(ended, Head(b.alerts), Tail(b.alerts),
                                                 d.connections),
                                   d.connections, d.configs)

\* The hub after the broadcasts have advanced from b to the next await
Broadcasting(b) ==
    LET run == BroadcastAdvance(b, active_connections, client_configs)
    IN  /\ bc' = run.bc
        /\ active_connections' = run.connections
        /\ client_configs' = run.configs
        /\ inbox' = IF run.bc.pc = "sending"
                    THEN FirstSent(inbox, run.bc.connection, run.bc.sent[run.bc.connection])
                    ELSE inbox

\* _check_alerts: the alerts of one opportunity list, in the order of the list
AlertList(opportunities, now) ==
    LET crossed == SelectSeq(opportunities,
                             LAMBDA opp : opp.profit_plat >= AlertThreshold * Scale)
    IN  [i \in DOMAIN crossed |->
            OpportunityAlert(crossed[i], "crossed_profit_threshold", now)]

\* The messages a cycle has handed to manager.broadcast, for its broadcasts b
Handed(b) ==
    { b.returned[i].message : i \in DOMAIN b.returned }
    \cup (IF b.pc = "sending" THEN {b.message} ELSE {})

\* Task t as its broadcasts b leave it at their next await: suspended in a send,
\* or, the broadcasts of the update and of the alerts having returned, at the
\* end of fetch_and_process (scheduler.py:116-121)
AfterBroadcasts(t, b) ==
    [(IF b.pc = "done" THEN EndCycle(t, FALSE) ELSE [tasks[t] EXCEPT !.pc = "broadcast"])
        EXCEPT !.broadcast = b]

\* The state replacement of the cycle of task t, and its broadcasts up to their
\* first await (scheduler.py:111-119, ws_manager.py:67-73): the send of the
\* update to the first connection; with no connection, neither the broadcast of
\* the update nor those of the alerts suspend, and the cycle ends.
Publish(t) ==
    /\ tasks[t].pc = "publish"
    /\ CanStep(t)
    /\ current_opportunities' = ReplaceState(current_opportunities, tasks[t].opportunities)
    /\ last_update' = tasks[t].cycle
    /\ Broadcasting(NextBroadcast(NoBroadcast,
                                  MarketUpdate(tasks[t].opportunities, tasks[t].cycle),
                                  AlertList(tasks[t].opportunities, tasks[t].cycle),
                                  active_connections))
    /\ tasks' = [tasks EXCEPT ![t] = AfterBroadcasts(t, bc')]
    /\ outbox' = outbox \cup Handed(bc')
    /\ UNCHANGED <<appPc, running, market, catalog, snapshots, lastRead, rq, call,
                   sockets, received, env_platform_fee_pct, ss, timed>>

\* await connection.send_json(message) ends in a broadcast of the cycle of task
\* t: the message is delivered, or the send raises and the connection is noted;
\* the loop goes on to its next await, in this broadcast or in that of the next
\* alert, or the cycle to its end
CycleSendComplete(t) ==
    /\ tasks[t].pc = "broadcast"
    /\ CanStep(t)
    /\ LET b == tasks[t].broadcast
       IN  \E ok \in BOOLEAN :
              /\ ok => sockets[b.connection] = "open"
              /\ IF ok
                 THEN /\ Broadcasting([b EXCEPT !.delivered[b.connection] = @ + 1])
                      /\ UNCHANGED sockets
                 ELSE /\ Broadcasting([b EXCEPT
                                         !.disconnected = Append(@, b.connection),
                                         !.failed = @ \cup {b.connection}])
                      /\ sockets' = [sockets EXCEPT
                                       ![b.connection] = IF @ = "open" THEN "closed" ELSE @]
    /\ tasks' = [tasks EXCEPT ![t] = AfterBroadcasts(t, bc')]
    /\ outbox' = outbox \cup Handed(bc')
    /\ UNCHANGED <<appPc, running, current_opportunities, last_update, market, catalog,
                   snapshots, lastRead, rq, call, received, env_platform_fee_pct, ss, timed>>

\* What a cycle collects on market m for the frames of the catalog
Collected(m, frames) ==
    [k \in { FetchKeys(frames)[i] : i \in DOMAIN FetchKeys(frames) } |->
        filter_orders(settings.platform,
                      get_item_orders(RetryResult(k, m[k])).orders, "sell")]

\* The first cycle replaces the state and enters the broadcast of the market
\* update, seen from the hub: no await lies between the assignments and the
\* first send_json of the broadcast (scheduler.py:111-116, ws_manager.py:82-89,
\* 67-73)
HubPublish ==
    /\ last_update = NoUpdate
    /\ bc.pc = "idle"
    /\ current_opportunities' =
          ReplaceState(current_opportunities,
                       OpportunitiesOf(catalog, Collected(market, catalog), 1))
    /\ last_update' = 1
    /\ Broadcasting(NextBroadcast(bc, MarketUpdate(current_opportunities', last_update'),
                                  AlertList(current_opportunities', last_update'),
                                  active_connections))
    /\ UNCHANGED <<appPc, running, tasks, market, catalog, snapshots, outbox, lastRead,
                   rq, call, sockets, received,
                   env_platform_fee_pct, ss, timed>>

\* await connection.send_json(message) ends: the message is delivered, or the
\* send raises and the connection is noted; then the loop goes on
SendComplete ==
    /\ bc.pc = "sending"
    /\ \E ok \in BOOLEAN :
          /\ ok => sockets[bc.connection] = "open"
          /\ IF ok
             THEN /\ Broadcasting([bc EXCEPT !.delivered[bc.connection] = @ + 1])
                  /\ UNCHANGED sockets
             ELSE /\ Broadcasting([bc EXCEPT
                                     !.disconnected = Append(@, bc.connection),
                                     !.failed = @ \cup {bc.connection}])
                  /\ sockets' = [sockets EXCEPT
                                   ![bc.connection] = IF @ = "open" THEN "closed" ELSE @]
    /\ UNCHANGED <<schedVars, rq, call, received>>

-----------------------------------------------------------------------------
(* The set_config message of a subscriber: routes.py:185-214 *)

\* The set_config messages the hub receives, over all of them.
MaxMessages == 2

\* No message has been received. The record holds the last message received:
\* its websocket, the config stored before it, the message passed to
\* send_personal_message in response, the websockets whose texts were no
\* config update, and for each websocket whose handler awaits the send_json of
\* send_personal_message, the message of that send.
NoReceived ==
    [ws |-> 0, message |-> [type |-> "none"], before |-> DefaultConfig, count |-> 0,
     ignored |-> {}, reply |-> NoMessage, pending |-> <<>>]

\* The fields a config-update request may carry, with the values sent
ConfigFields == {"strategy", "min_profit", "min_margin", "platform"}
SentValue(field) ==
    CASE field = "strategy" -> "aggressive"
      [] field = "min_profit" -> 10 * Scale
      [] field = "min_margin" -> 2000
      [] OTHER -> "ps4"

\* {"type": "set_config", ...} with the fields of one subset
SetConfigMessage(fields) ==
    [k \in {"type"} \cup fields |-> IF k = "type" THEN "set_config" ELSE SentValue(k)]
SetConfigMessages == { SetConfigMessage(fields) : fields \in SUBSET ConfigFields }

\* config = {k: v for k, v in message.items() if k in [...]} (routes.py:194-198)
ConfigOf(message) ==
    [k \in DOMAIN message \cap {"min_profit", "min_margin", "platform"} |-> message[k]]

\* dict.update
Update(dict, other) ==
    [k \in DOMAIN dict \cup DOMAIN other |-> IF k \in DOMAIN other THEN other[k] ELSE dict[k]]

\* A variant in which the subscribers share one config dictionary.
UpdateEveryConfig(configs, websocket, config) ==
    IF websocket \in DOMAIN configs
    THEN [w \in DOMAIN configs |-> Update(configs[w], config)]
    ELSE configs

\* ConnectionManager.update_client_config, as the configs after it
update_client_config(configs, websocket, config) ==
    IF websocket \in DOMAIN configs
    THEN [configs EXCEPT ![websocket] = Update(configs[websocket], config)]
    ELSE configs

\* ConnectionManager.get_client_config
get_client_config(configs, websocket) ==
    IF websocket \in DOMAIN configs THEN configs[websocket] ELSE DefaultConfig

\* The handler of websocket_market receives a set_config message: the config is
\* updated, the opportunities that pass the new thresholds are put in the reply,
\* and send_personal_message awaits websocket.send_json (ws_manager.py:62);
\* the handler is back at receive_text when that send has ended.
SetConfig(ws) ==
    /\ sockets[ws] = "open"
    /\ ws \notin DOMAIN received.pending
    /\ received.count < MaxMessages
    /\ \E message \in SetConfigMessages :
          LET updated == update_client_config(client_configs, ws, ConfigOf(message))
              client_config == get_client_config(updated, ws)
              filtered_opps == get_current_opportunities(current_opportunities,
                                                         client_config.min_profit,
                                                         client_config.min_margin)
          IN  /\ received' = [ws |-> ws, message |-> message,
                              before |-> get_client_config(client_configs, ws),
                              count |-> received.count + 1,
                              ignored |-> received.ignored,
                              reply |-> MarketUpdate(filtered_opps, last_update),
                              pending |-> (ws :> MarketUpdate(filtered_opps, last_update))
                                          @@ received.pending]
              /\ client_configs' = updated
              /\ inbox' = FirstSent(inbox, ws, MarketUpdate(filtered_opps, last_update))
    /\ UNCHANGED <<schedVars, rq, call, bc, active_connections, sockets>>

\* await websocket.send_json(message) of send_personal_message ends, for the
\* initial data and for the reply to a config update alike: the message is
\* delivered, or the send raises and the websocket is disconnected
\* (ws_manager.py:61-65); the handler goes on to receive_text
send_personal_message(ws) ==
    /\ ws \in DOMAIN received.pending
    /\ received' = [received EXCEPT
                       !.pending = [w \in DOMAIN @ \ {ws} |-> @[w]]]
    /\ \E ok \in BOOLEAN :
          /\ ok => sockets[ws] = "open"
          /\ IF ok
             THEN UNCHANGED <<active_connections, client_configs, sockets>>
             ELSE LET d == disconnect(active_connections, client_configs, ws)
                  IN  /\ client_configs' = d.configs
                      /\ active_connections' = d.connections
                      /\ sockets' = [sockets EXCEPT ![ws] = IF @ = "open" THEN "closed" ELSE @]
    /\ UNCHANGED <<schedVars, rq, call, bc, inbox>>

\* The texts a subscriber sends that are no config update: a text that is no
\* JSON, the JSON of a list, an object of another type, an object without a type
OtherTexts ==
    { [json |-> FALSE, object |-> FALSE, type |-> "none"],
      [json |-> TRUE, object |-> FALSE, type |-> "none"],
      [json |-> TRUE, object |-> TRUE, type |-> "ping"],
      [json |-> TRUE, object |-> TRUE, type |-> "none"] }

\* A handler without the inner except Exception clause: the AttributeError of
\* message.get on a value that is no object reaches the outer handlers.
OutcomeWithoutCatchAll(data) ==
    IF ~data.json THEN "logged"
    ELSE IF ~data.object THEN "raised"
    ELSE IF data.type = "set_config" THEN "set_config"
    ELSE "skipped"

\* The body of the receive loop on one text (routes.py:187-219): json.loads
\* raises JSONDecodeError, message.get raises AttributeError on a value that is
\* no object, and both are caught and logged inside the loop; an object of
\* another type meets no branch.
TextOutcome(data) ==
    IF ~data.json THEN "logged"
    ELSE IF ~data.object THEN "logged"
    ELSE IF data.type = "set_config" THEN "set_config"
    ELSE "skipped"

\* The handler of websocket_market receives a text that is no config update.
\* An exception that left the loop would end the handler in
\* manager.disconnect(websocket) (routes.py:221-225).
OtherMessage(ws) ==
    /\ sockets[ws] = "open"
    /\ ws \notin DOMAIN received.pending
    /\ received.count < MaxMessages
    /\ \E data \in OtherTexts :
          LET d == disconnect(active_connections, client_configs, ws)
          IN  /\ TextOutcome(data) # "set_config"
              /\ received' = [ws |-> ws, message |-> [type |-> data.type],
                              before |-> get_client_config(client_configs, ws),
                              count |-> received.count + 1,
                              ignored |-> received.ignored \cup {ws},
                              reply |-> NoMessage,
                              pending |-> received.pending]
              /\ IF TextOutcome(data) = "raised"
                 THEN /\ client_configs' = d.configs
                      /\ active_connections' = d.connections
                      /\ sockets' = [sockets EXCEPT ![ws] = "gone"]
                 ELSE UNCHANGED <<active_connections, client_configs, sockets>>
    /\ UNCHANGED <<schedVars, rq, call, bc, inbox>>

-----------------------------------------------------------------------------
(* A MarketDataScheduler under any calls of start() and stop(): scheduler.py *)

\* The calls of start() and stop() that are followed.
MaxCalls == 4

\* __init__: running = False, _task = None; no loop task yet, no call made.
\* loops: the tasks that start() has created, _task the index of the last one;
\* stops: the calls of stop(), each with the task it awaits (0: none).
NoScheduler ==
    [running |-> FALSE, task |-> 0, loops |-> <<>>, stops |-> <<>>, starts |-> 0]

otherVars == <<appPc, running, current_opportunities, last_update, tasks, market,
               catalog, snapshots, outbox, lastRead, env_platform_fee_pct, rq, call,
               hubVars, timed>>

TaskEnded(loop) == loop.pc \in {"done", "cancelled"}

\* A variant of stop() that only clears the flag and waits for the loop to see it.
CancelNothing(loops, task) == loops

\* self._task.cancel(): a task that has not ended is to get a CancelledError at
\* the await it is suspended at
Cancel(loops, task) ==
    IF TaskEnded(loops[task]) THEN loops
    ELSE [loops EXCEPT ![task].must_cancel = TRUE]

\* start(): without an await
CallStart ==
    /\ ss.starts + Len(ss.stops) < MaxCalls
    /\ ss' = IF ~ss.running
             THEN [ss EXCEPT !.running = TRUE,
                             !.loops = Append(@, [pc |-> "new", must_cancel |-> FALSE]),
                             !.task = Len(ss.loops) + 1,
                             !.starts = @ + 1]
             ELSE [ss EXCEPT !.starts = @ + 1]
    /\ UNCHANGED otherVars

\* stop(), up to its await (or to its end, when there is no task)
CallStop ==
    /\ ss.starts + Len(ss.stops) < MaxCalls
    /\ ss' = IF ss.task # 0
             THEN [ss EXCEPT !.running = FALSE,
                             !.loops = Cancel(@, ss.task),
                             !.stops = Append(@, [awaiting |-> ss.task, returned |-> FALSE])]
             ELSE [ss EXCEPT !.running = FALSE,
                             !.stops = Append(@, [awaiting |-> 0, returned |-> TRUE])]
    /\ UNCHANGED otherVars

\* await self._task ends in a call of stop(): the task has ended
StopResumes(k) ==
    /\ k \in DOMAIN ss.stops
    /\ ~ss.stops[k].returned
    /\ TaskEnded(ss.loops[ss.stops[k].awaiting])
    /\ ss' = [ss EXCEPT !.stops[k].returned = TRUE]
    /\ UNCHANGED otherVars

\* A step of a loop task: _run_loop tests self.running, first when it starts and
\* then after each sleep, and enters fetch_and_process or ends; a cycle ends and
\* the sleep begins.
LoopStep(i) ==
    /\ i \in DOMAIN ss.loops
    /\ ~ss.loops[i].must_cancel
    /\ ss.loops[i].pc \in {"new", "cycle", "sleep"}
    /\ ss' = [ss EXCEPT !.loops[i].pc =
                 IF ss.loops[i].pc = "cycle" THEN "sleep"
                 ELSE IF ss.running THEN "cycle" ELSE "done"]
    /\ UNCHANGED otherVars

\* The CancelledError reaches the task
CancelDelivered(i) ==
    /\ i \in DOMAIN ss.loops
    /\ ss.loops[i].must_cancel
    /\ ~TaskEnded(ss.loops[i])
    /\ ss' = [ss EXCEPT !.loops[i].pc = "cancelled"]
    /\ UNCHANGED otherVars

-----------------------------------------------------------------------------
(* The loop of one scheduler on the clock, in seconds: scheduler.py:165-196 *)

\* The cycles of the loop that are followed.
MaxTimedCycles == 3

\* How long a cycle takes: less than the refresh interval, as long, longer
CycleDurations == {15, 45, 60}

\* How long after the loop's last step stop() is called
StopDelays == {0, 15, 30}

\* now: the clock; loops, task, running as in the scheduler; cycles: the start
\* and the end of each cycle; the times at which stop() was called and returned,
\* and where the loop was when it was called
NoTimed ==
    [now |-> 0, running |-> FALSE, task |-> 0, loops |-> <<>>, cycles |-> <<>>,
     stop_called |-> NoUpdate, stop_returned |-> NoUpdate, stopped_in |-> "none"]

untimedVars == <<appPc, running, current_opportunities, last_update, tasks, market,
                 catalog, snapshots, outbox, lastRead, env_platform_fee_pct, rq, call,
                 hubVars, ss>>

\* start() at time 0: the loop task is created and is ready to run
TimedStart ==
    /\ timed.task = 0
    /\ timed.stop_called = NoUpdate
    /\ timed' = [timed EXCEPT
                   !.running = TRUE,
                   !.task = 1,
                   !.loops = <<[pc |-> "new", must_cancel |-> FALSE,
                                until |-> timed.now, ended_at |-> NoUpdate]>>]
    /\ UNCHANGED untimedVars

\* while self.running: the task runs for the first time, or its sleep has ended;
\* it enters fetch_and_process, which will take one of the durations, or ends
TimedLoopTop ==
    /\ timed.task # 0
    /\ LET loop == timed.loops[timed.task]
       IN  /\ loop.pc \in {"new", "sleep"}
           /\ ~loop.must_cancel
           /\ IF timed.running
              THEN /\ Len(timed.cycles) < MaxTimedCycles
                   /\ \E d \in CycleDurations :
                         timed' = [timed EXCEPT
                                     !.now = loop.until,
                                     !.loops[timed.task].pc = "cycle",
                                     !.loops[timed.task].until = loop.until + d,
                                     !.cycles = Append(@, [start |-> loop.until,
                                                            end |-> NoUpdate])]
              ELSE timed' = [timed EXCEPT
                               !.now = loop.until,
                               !.loops[timed.task].pc = "done",
                               !.loops[timed.task].ended_at = loop.until]
    /\ UNCHANGED untimedVars

\* fetch_and_process returns; await asyncio.sleep(settings.refresh_interval_seconds)
TimedCycleEnds ==
    /\ timed.task # 0
    /\ LET loop == timed.loops[timed.task]
       IN  /\ loop.pc = "cycle"
           /\ ~loop.must_cancel
           /\ timed' = [timed EXCEPT
                          !.now = loop.until,
                          !.loops[timed.task].pc = "sleep",
                          !.loops[timed.task].until =
                              loop.until + settings.refresh_interval_seconds,
                          !.cycles[Len(timed.cycles)].end = loop.until]
    /\ UNCHANGED untimedVars

\* stop() is called, no later than the loop's next step: running = False,
\* self._task.cancel(), and the await of the task (without a task it returns)
TimedStop ==
    /\ timed.stop_called = NoUpdate
    /\ \E delay \in StopDelays :
          LET t == timed.now + delay
          IN  IF timed.task = 0
              THEN timed' = [timed EXCEPT !.now = t, !.running = FALSE,
                                          !.stop_called = t, !.stop_returned = t,
                                          !.stopped_in = "idle"]
              ELSE /\ TaskEnded(timed.loops[timed.task]) \/ t <= timed.loops[timed.task].until
                   /\ timed' = [timed EXCEPT
                                  !.now = t, !.running = FALSE,
                                  !.loops = Cancel(@, timed.task),
                                  !.stop_called = t,
                                  !.stopped_in = timed.loops[timed.task].pc]
    /\ UNCHANGED untimedVars

\* The CancelledError reaches the task at its await: the sleep or the cycle ends
TimedCancelled ==
    /\ timed.task # 0
    /\ timed.loops[timed.task].must_cancel
    /\ ~TaskEnded(timed.loops[timed.task])
    /\ timed' = [timed EXCEPT !.loops[timed.task].pc = "cancelled",
                              !.loops[timed.task].ended_at = timed.now]
    /\ UNCHANGED untimedVars

\* await self._task ends: stop() returns
TimedStopReturns ==
    /\ timed.stop_called # NoUpdate
    /\ timed.stop_returned = NoUpdate
    /\ TaskEnded(timed.loops[timed.task])
    /\ timed' = [timed EXCEPT !.stop_returned = timed.now]
    /\ UNCHANGED untimedVars

-----------------------------------------------------------------------------
(* The service: startup, the loop and the initial fetch, readers, shutdown *)

\* No function has been applied
NoCall == [fn |-> "none"]

NoRequest ==
    [pc |-> "idle", item |-> "", attempt |-> 0, last_exception |-> "None", requests |-> 0,
     wait |-> 0, waited |-> 0, succeeded |-> FALSE, inner |-> [kind |-> "none"],
     result |-> [kind |-> "none"], status |-> 0,
     header |-> [present |-> FALSE, numeric |-> TRUE, seconds |-> 0], backoff |-> 0]

\* The state after the modules are imported, whatever the environment sets
Boot ==
    /\ appPc = "startup"
    /\ running = FALSE
    /\ current_opportunities = <<>>
    /\ last_update = NoUpdate
    /\ tasks = [t \in TaskIds |-> NoTask]
    /\ market \in Markets
    /\ catalog \in Catalogs
    /\ snapshots = {}
    /\ outbox = {}
    /\ lastRead = NoRead
    /\ rq = NoRequest
    /\ active_connections = <<>>
    /\ client_configs = <<>>
    /\ sockets = [ws \in WebSockets |-> "new"]
    /\ bc = NoBroadcast
    /\ inbox = [ws \in WebSockets |-> NoMessage]
    /\ received = NoReceived
    /\ call = NoCall
    /\ ss = NoScheduler
    /\ timed = NoTimed

\* The default configuration (config.py:14-17)
Init ==
    /\ Boot
    /\ env_platform_fee_pct = settings.platform_fee_pct

Next ==
    \/ Start
    \/ SpawnInitialFetch
    \/ StopCall
    \/ StopReturn
    \/ Shutdown
    \/ LoopTop
    \/ LoopWake
    \/ InitialBegin
    \/ Read
    \/ ReadReturn
    \/ \E t \in TaskIds : TaskCancelled(t)
    \/ \E t \in TaskIds : ReadCatalog(t)
    \/ \E t \in TaskIds : FetchItem(t)
    \/ \E t \in TaskIds : Compute(t)
    \/ \E t \in TaskIds : StoreSnapshots(t)
    \/ \E t \in TaskIds : Publish(t)

Spec == Init /\ [][Next]_vars

\* The service under a configured fee rate, on the markets in which every set
\* has a price: all books good, the first frame's part without orders, the
\* second frame's set offered for less than its part.
FeeMarkets ==
    { m \in Markets : /\ m["mesa_prime_set"] = "good"
                      /\ m["volt_prime_set"] \in {"good", "cheap"} }

FeeInit ==
    /\ Boot
    /\ env_platform_fee_pct \in FeeRates
    /\ catalog = DefaultCatalog
    /\ market \in FeeMarkets

SpecFee == FeeInit /\ [][Next]_vars

\* The scheduler alone, under any calls of start() and stop()
StartStopNext ==
    \/ CallStart
    \/ CallStop
    \/ \E k \in 1..MaxCalls : StopResumes(k)
    \/ \E i \in 1..MaxCalls : LoopStep(i)
    \/ \E i \in 1..MaxCalls : CancelDelivered(i)

StartStopInit ==
    /\ Init
    /\ catalog = DefaultCatalog
    /\ \A k \in ItemKeys : market[k] = "good"

SpecStartStop == StartStopInit /\ [][StartStopNext]_vars

\* The loop of one scheduler on the clock
TimedNext ==
    \/ TimedStart
    \/ TimedLoopTop
    \/ TimedCycleEnds
    \/ TimedStop
    \/ TimedCancelled
    \/ TimedStopReturns

SpecTimed == StartStopInit /\ [][TimedNext]_vars

\* The event loop runs a task that is ready: a cancelled task gets its
\* CancelledError, and stop() goes on when the task it awaits has ended.
FairSpecTimed ==
    /\ SpecTimed
    /\ WF_vars(TimedCancelled)
    /\ WF_vars(TimedStopReturns)


-----------------------------------------------------------------------------
(* Properties of the service *)

StopReturned == appPc \in {"stopped", "down"}

\* C1: at no point are two executions of fetch_and_process in progress at the
\* same time, the initial fetch of the startup sequence included.
CyclesNeverOverlap == ~(InCycle("loop") /\ InCycle("initial"))

\* A step in which task t performs a fetch, a snapshot write, the state
\* replacement with its broadcast, or the alert broadcasts.
WorkStep(t) ==
    /\ tasks[t].pc \in {"fetch", "store", "publish", "broadcast"}
    /\ tasks'[t] # tasks[t]
    /\ tasks'[t].pc # "cancelled"

\* C2: once stop() has returned, no cycle performs a further fetch, snapshot
\* write, CurrentState write or broadcast.
NoWorkAfterStop == [][StopReturned => \A t \in TaskIds : ~WorkStep(t)]_vars

\* C3: when stop() returns, the cycle that was in progress when it was called has
\* been completed: the loop was not ended partway through a cycle.
StopCompletesCycle == StopReturned => tasks["loop"].cancelledAt \notin CyclePcs

\* C4: the list a reader obtains holds entries of one single cycle.
ReadFromOneCycle ==
    \A i, j \in DOMAIN lastRead.result :
        lastRead.result[i].last_updated = lastRead.result[j].last_updated

\* A reader obtains two entries while a cycle other than the one that produced
\* them is about to replace the state.
ReadDuringCycle ==
    /\ lastRead.pending
    /\ Len(lastRead.result) >= 2
    /\ \E t \in TaskIds :
          /\ tasks[t].pc = "publish"
          /\ tasks[t].opportunities # <<>>
          /\ tasks[t].cycle # lastRead.result[1].last_updated

AloneTable ==
    { <<m, DefaultCatalog[i].id, fee_pct,
        FrameOpportunity(DefaultCatalog[i], AloneOrders(m, DefaultCatalog[i]),
                         settings.strategy, settings.platform, fee_pct)>> :
        m \in Markets, i \in DOMAIN DefaultCatalog, fee_pct \in FeeRates }

Alone(frame) ==
    (CHOOSE e \in AloneTable :
        e[1] = market /\ e[2] = frame.id /\ e[3] = env_platform_fee_pct)[4]

RECURSIVE EachAlone(_, _)
EachAlone(frames, now) ==
    IF frames = <<>> THEN <<>>
    ELSE (IF Alone(Head(frames)).kind = "opp"
          THEN <<[last_updated |-> now] @@ Alone(Head(frames)).opp>> ELSE <<>>)
         \o EachAlone(Tail(frames), now)

FetchFailsEveryRetry(frame) == \A k \in KeysOf(frame) : market[k] = "fail"
Fails(frame) == FetchFailsEveryRetry(frame) \/ Alone(frame).kind = "raise"

FrameIds(opportunities) == { opportunities[i].frame_id : i \in DOMAIN opportunities }

Computed(t) == tasks[t].pc \in {"store", "publish", "broadcast", "sleep", "done"}
                 /\ tasks[t].frames # <<>>

\* C6: an item whose fetches all fail, or whose computation raises, is absent
\* from the cycle's result and from CurrentState, every other item's opportunity
\* is what a cycle over that item alone gives, and the cycle is not aborted.
FailingItemIsolated ==
    /\ \A t \in TaskIds :
          /\ Computed(t) =>
                /\ tasks[t].opportunities = EachAlone(tasks[t].frames, tasks[t].cycle)
                /\ \A i \in DOMAIN tasks[t].frames :
                      Fails(tasks[t].frames[i]) =>
                          tasks[t].frames[i].id \notin FrameIds(tasks[t].opportunities)
          /\ (tasks[t].failed /\ tasks[t].pc \in {"sleep", "done"}) => tasks[t].frames = <<>>
    /\ current_opportunities # <<>> =>
          current_opportunities = EachAlone(catalog, current_opportunities[1].last_updated)

\* One item fails and another is published.
OneFailsOtherPublished ==
    /\ \E i, j \in DOMAIN catalog :
          /\ Fails(catalog[i])
          /\ ~Fails(catalog[j])
          /\ catalog[j].id \in FrameIds(current_opportunities)
          /\ catalog[i].id \notin FrameIds(current_opportunities)
    /\ \E t \in TaskIds : tasks[t].pc \in {"sleep", "done"} /\ ~tasks[t].failed

\* Every opportunity in CurrentState, in a persisted snapshot or in a broadcast.
Emitted ==
    { current_opportunities[i] : i \in DOMAIN current_opportunities }
    \cup UNION { { m.opportunities[i] : i \in DOMAIN m.opportunities } : m \in outbox }

\* C8: an item whose set has no usable order or a set price of 0 yields no
\* opportunity: every opportunity in CurrentState, in a snapshot or in a
\* broadcast has a set price above 0.
SetPricePositive ==
    /\ \A o \in Emitted : o.full_set_price > 0
    /\ \A row \in snapshots : row.table = "set_snapshots" => row.price > 0
    /\ \A t \in TaskIds : \A i \in DOMAIN tasks[t].opportunities :
          tasks[t].opportunities[i].full_set_price > 0
    /\ \A t \in TaskIds : Computed(t) =>
          \A i \in DOMAIN tasks[t].frames :
              LET set_orders == GetOrders(tasks[t].market_orders,
                                          SetItemName(tasks[t].frames[i].id))
              IN  (set_orders = <<>> \/ \A k \in DOMAIN set_orders : set_orders[k].platinum <= 0)
                     => tasks[t].frames[i].id \notin FrameIds(tasks[t].opportunities)

\* A cycle over a market with a zero-priced set has persisted and broadcast
\* the other item.
ZeroSetCyclePublished ==
    /\ \E k \in SetKeys : market[k] = "zero"
    /\ current_opportunities # <<>>
    /\ \E row \in snapshots : row.table = "set_snapshots"
    /\ \E m \in outbox : m.type = "market_update" /\ m.opportunities # <<>>

\* The indices of CurrentState that meet the thresholds.
Passing(current, min_profit, min_margin) ==
    { i \in DOMAIN current :
        current[i].profit_plat >= min_profit /\ current[i].profit_margin >= min_margin }

\* C10: get_current_opportunities returns exactly the opportunities of the
\* latest CurrentState with profit >= min_profit and margin >= min_margin, in
\* CurrentState order, and starts no fetch.
ReadReturnsFiltered ==
    [][(lastRead'.pending /\ ~lastRead.pending) =>
          LET pass == Passing(current_opportunities, lastRead'.min_profit,
                              lastRead'.min_margin)
              r == lastRead'.result
          IN  /\ Len(r) = Cardinality(pass)
              /\ \A n \in DOMAIN r :
                    r[n] = current_opportunities[
                              CHOOSE i \in pass : Cardinality({k \in pass : k <= i}) = n]
              /\ UNCHANGED <<current_opportunities, last_update, tasks, outbox, snapshots>>
      ]_vars

\* A read with a threshold that keeps one of two opportunities.
ReadKeepsSome ==
    /\ lastRead.pending
    /\ Len(current_opportunities) = 2
    /\ Len(lastRead.result) = 1
    /\ lastRead.result[1] = current_opportunities[2]


-----------------------------------------------------------------------------
(* Progress of the loop *)

\* C22: a cycle whose snapshot persistence failed goes on: it replaces
\* CurrentState with the list it computed, hands the bulk update of that list to
\* the broadcast and evaluates the alerts; the state before it is not restored.
PersistenceFailureTolerated ==
    [][\A t \in TaskIds :
          /\ (tasks[t].pc = "store" /\ tasks'[t].store_failed) => tasks'[t].pc = "publish"
          /\ (tasks[t].store_failed /\ tasks[t].pc = "publish" /\ tasks'[t].pc # "publish") =>
                \/ tasks'[t].pc = "cancelled"
                \/ /\ current_opportunities' = tasks[t].opportunities
                   /\ last_update' = tasks[t].cycle
                   /\ MarketUpdate(tasks[t].opportunities, tasks[t].cycle) \in outbox'
                   /\ \/ tasks'[t].pc = "broadcast"
                      \/ /\ ~tasks'[t].failed
                         /\ AlertsOf(tasks[t].opportunities, tasks[t].cycle)
                               \subseteq outbox'
          /\ (tasks[t].store_failed /\ tasks[t].pc = "broadcast"
                 /\ tasks'[t].pc # "broadcast") =>
                \/ tasks'[t].pc = "cancelled"
                \/ /\ ~tasks'[t].failed
                   /\ AlertsOf(tasks[t].opportunities, tasks[t].cycle) \subseteq outbox']_vars

\* A cycle that could not store its snapshots has ended, and the state is its list.
FailedStoreCyclePublished ==
    \E t \in TaskIds :
        /\ tasks[t].store_failed
        /\ tasks[t].pc \in {"sleep", "done"}
        /\ tasks[t].opportunities # <<>>
        /\ current_opportunities = tasks[t].opportunities
        /\ snapshots = {}
        /\ AlertsOf(tasks[t].opportunities, tasks[t].cycle) # {}
        /\ AlertsOf(tasks[t].opportunities, tasks[t].cycle) \subseteq outbox


\* Whether an opportunity list holds the item with a profit at or above the
\* alert threshold
Qualifies(opportunities, frame_id) ==
    \E i \in DOMAIN opportunities :
        /\ opportunities[i].frame_id = frame_id
        /\ opportunities[i].profit_plat >= AlertThreshold * Scale

\* C23: an alert for an item is broadcast in a cycle of the loop only when the
\* item's profit is at or above the alert threshold in that cycle and was not in
\* the loop's preceding cycle.
AlertsOnlyOnCrossing ==
    \A alert \in outbox :
        alert.type = "opportunity_alert" =>
            /\ Qualifies(alert.opportunities, alert.opportunities[1].frame_id)
            /\ \A update \in outbox :
                  (/\ update.type = "market_update"
                   /\ update.timestamp >= 1
                   /\ update.timestamp = alert.timestamp - 1)
                  => ~Qualifies(update.opportunities, alert.opportunities[1].frame_id)


\* C24: every cycle that has run to its end, whatever the catalog and whatever
\* the marketplace answered, has handed the bulk update carrying its opportunity
\* list to the broadcast.
EveryCycleBroadcasts ==
    \A t \in TaskIds :
        (/\ tasks[t].pc \in {"sleep", "done"}
         /\ tasks[t].cycle # NoUpdate
         /\ ~tasks[t].failed)
        => MarketUpdate(tasks[t].opportunities, tasks[t].cycle) \in outbox


\* The entries of an opportunity list without their last_updated stamps
Unstamped(opportunities) ==
    [i \in DOMAIN opportunities |->
        [k \in DOMAIN opportunities[i] \ {"last_updated"} |-> opportunities[i][k]]]

\* The bulk updates of the cycles so far: each carries the CurrentState its
\* cycle assigned (scheduler.py:112-116)
PublishedUpdates == { update \in outbox : update.type = "market_update" }

\* C25 as stated: the CurrentState of any two cycles over the same catalog,
\* configuration and marketplace answers is the same.
CyclesGiveSameState ==
    \A update \in PublishedUpdates : update.opportunities = current_opportunities

\* C25: the CurrentState of any two cycles over the same catalog, configuration
\* and marketplace answers is the same in every field of every opportunity but
\* its last_updated stamp.
CyclesGiveSameValues ==
    \A update \in PublishedUpdates :
        Unstamped(update.opportunities) = Unstamped(current_opportunities)

\* Two cycles have published a list with entries.
TwoCyclesPublished ==
    \E update \in PublishedUpdates :
        /\ update.timestamp # last_update
        /\ Len(update.opportunities) = 2
        /\ Len(current_opportunities) = 2


\* The sum of the listed part prices of an opportunity
PartsCost(opp) == SumSeq([i \in DOMAIN opp.parts |-> opp.parts[i].price])

\* fee = set_price * fee percentage, for an opportunity of CurrentState
FeeOf(opp) == (opp.full_set_price * env_platform_fee_pct) \div Scale

Abs(x) == IF x >= 0 THEN x ELSE -x

\* C26 as stated: every opportunity of CurrentState has
\* profit = set_price - parts_cost - fee and margin = profit / parts_cost, the
\* margin being 0 when parts_cost is 0.
OpportunityInvariant ==
    \A i \in DOMAIN current_opportunities :
        LET opp == current_opportunities[i]
        IN  /\ opp.profit_plat = opp.full_set_price - PartsCost(opp) - FeeOf(opp)
            /\ PartsCost(opp) = 0 => opp.profit_margin = 0
            /\ PartsCost(opp) # 0 =>
                  opp.profit_margin * PartsCost(opp) = opp.profit_plat * MarginScale

\* C26: every opportunity of CurrentState with a parts cost other than 0 has
\* profit = set_price - parts_cost - fee and, to the fourth decimal,
\* margin = profit / parts_cost; with a parts cost of 0 its profit and its margin
\* are 0.
OpportunityInvariantRounded ==
    \A i \in DOMAIN current_opportunities :
        LET opp == current_opportunities[i]
        IN  /\ PartsCost(opp) = 0 => (opp.profit_plat = 0 /\ opp.profit_margin = 0)
            /\ PartsCost(opp) # 0 =>
                  /\ opp.profit_plat = opp.full_set_price - PartsCost(opp) - FeeOf(opp)
                  /\ 2 * Abs(opp.profit_margin * PartsCost(opp) - opp.profit_plat * MarginScale)
                        <= PartsCost(opp)

\* Under a fee, CurrentState holds an opportunity without priced parts and one
\* whose margin is not a multiple of a ten-thousandth.
FeeAndZeroCostPublished ==
    /\ env_platform_fee_pct > 0
    /\ \E i \in DOMAIN current_opportunities :
          /\ current_opportunities[i].parts = <<>>
          /\ current_opportunities[i].full_set_price > 0
    /\ \E i \in DOMAIN current_opportunities :
          LET opp == current_opportunities[i]
          IN  /\ PartsCost(opp) # 0
              /\ FeeOf(opp) > 0
              /\ opp.profit_margin * PartsCost(opp) # opp.profit_plat * MarginScale


\* A loop task that runs or will run cycles: it has not ended and no
\* cancellation is pending on it
Live(loop) == ~TaskEnded(loop) /\ ~loop.must_cancel

\* C27: start() in Idle moves to Running and creates the loop task, whose first
\* action is a cycle; start() in Running changes nothing; stop() moves to Idle;
\* and under every interleaving of the calls at most one loop task is live.
SchedulerTwoStates ==
    [][/\ ss'.starts # ss.starts =>
             IF ss.running
             THEN ss' = [ss EXCEPT !.starts = ss'.starts]
             ELSE /\ ss'.running
                  /\ Len(ss'.loops) = Len(ss.loops) + 1
                  /\ ss'.task = Len(ss'.loops)
                  /\ ss'.loops[ss'.task] = [pc |-> "new", must_cancel |-> FALSE]
       /\ Len(ss'.stops) # Len(ss.stops) => ~ss'.running
       /\ \A i \in DOMAIN ss.loops :
             (ss.loops[i].pc = "new" /\ ss'.loops[i].pc \notin {"new", "cancelled"})
                => ss'.loops[i].pc = "cycle"
       /\ Cardinality({ i \in DOMAIN ss'.loops : Live(ss'.loops[i]) }) <= 1
      ]_vars

\* After start(), stop(), start() and a further start(), the second loop task is
\* in a cycle and the first has been cancelled.
RestartedLoopCycles ==
    /\ ss.running
    /\ ss.starts = 3
    /\ Len(ss.stops) = 1
    /\ Len(ss.loops) = 2
    /\ ss.loops[1].pc = "cancelled"
    /\ ss.loops[2].pc = "cycle"

\* C28: when a cycle of the loop took at least the refresh interval, the next
\* cycle starts at the moment that cycle finished, with no idle wait between them.
OverrunStartsNextAtOnce ==
    \A k \in 1..(Len(timed.cycles) - 1) :
        timed.cycles[k].end - timed.cycles[k].start >= settings.refresh_interval_seconds
            => timed.cycles[k + 1].start = timed.cycles[k].end

\* C29: every call of stop() returns, whether the scheduler is idle, in its idle
\* wait or in a cycle; a stop() called during the idle wait returns at the time it
\* was called, not when the interval has elapsed; no cycle starts once stop() has
\* been called.
StopReturnsAtOnce ==
    /\ (timed.stop_called # NoUpdate) ~> (timed.stop_returned # NoUpdate)
    /\ []((timed.stopped_in = "sleep" /\ timed.stop_returned # NoUpdate)
            => timed.stop_returned = timed.stop_called)
    /\ [][timed.stop_called # NoUpdate => timed'.cycles = timed.cycles]_vars

\* stop() was called in the idle wait and has returned before the wait's end
StoppedInIdleWait ==
    /\ timed.stopped_in = "sleep"
    /\ timed.stop_returned # NoUpdate
    /\ timed.stop_returned < timed.loops[timed.task].until
    /\ timed.loops[timed.task].pc = "cancelled"

\* The ids of a list of frames or of opportunities, in the list's order
IdsOfFrames(frames) == [i \in DOMAIN frames |-> frames[i].id]
IdsOfOpportunities(opportunities) ==
    [i \in DOMAIN opportunities |-> opportunities[i].frame_id]

\* C35: a cycle fetches the keys in catalog order (each frame's parts, then its
\* set, frame after frame), and the opportunity list of the current state is the
\* catalog order restricted to the frames that have an opportunity in it.
CatalogOrderKept ==
    /\ \A t \in TaskIds :
          tasks[t].pc \in {"fetch", "compute"} =>
              /\ tasks[t].frames = catalog
              /\ DOMAIN tasks[t].market_orders =
                    { FetchKeys(catalog)[i] : i \in 1..(tasks[t].idx - 1) }
    /\ IdsOfOpportunities(current_opportunities) =
          SelectSeq(IdsOfFrames(catalog),
                    LAMBDA id : id \in FrameIds(current_opportunities))

\* Both frames of the catalog have their opportunity in the current state.
BothFramesPublished ==
    /\ Len(catalog) = 2
    /\ Len(current_opportunities) = 2

FairInit == Init /\ market \in FairMarkets /\ catalog = DefaultCatalog

FairSpec ==
    /\ FairInit /\ [][Next]_vars
    /\ SF_vars(LoopWake)
    /\ SF_vars(LoopTop)
    /\ WF_vars(ReadReturn)

\* C7: no failure in a cycle ends the loop: while the scheduler is running,
\* after every cycle of the loop, failed or not, the next cycle starts (up to
\* the MaxCycles cycles that the model follows).
LoopKeepsCycling ==
    \A n \in 1..(MaxCycles - 1) :
        (tasks["loop"].ncycles = n /\ tasks["loop"].pc \in {"sleep", "done"})
            ~> (~running \/ tasks["loop"].ncycles = n + 1)

\* The loop is in a cycle that follows a failed one.
CycleAfterFailedCycle ==
    /\ tasks["loop"].ncycles = 2
    /\ tasks["loop"].pc = "catalog"
    /\ tasks["loop"].failed
    /\ running


-----------------------------------------------------------------------------
(* One call of get_item_orders: market_client.py *)

\* A variant without the cap of the delay.
BackoffUncapped(attempt) == base_backoff * Pow2(attempt)

\* _calculate_backoff without its jitter, in milliseconds
Backoff(attempt) == Min(base_backoff * Pow2(attempt), max_backoff)

\* random.uniform(0, backoff * 0.1): the ends and the middle of the interval
Jitters(backoff) == {0, backoff \div 20, backoff \div 10}

\* _calculate_backoff: the delays it can return for an attempt, in milliseconds
calculate_backoff(attempt) ==
    { Backoff(attempt) + jitter : jitter \in Jitters(Backoff(attempt)) }

\* No header of a response
NoHeader == [present |-> FALSE, numeric |-> TRUE, seconds |-> 0]

\* The answers of the marketplace to one request.  A 429 carries a Retry-After
\* header or none; its value may not be a number.
Headers == { NoHeader,
             [present |-> TRUE, numeric |-> TRUE, seconds |-> 1],
             [present |-> TRUE, numeric |-> TRUE, seconds |-> 120],
             [present |-> TRUE, numeric |-> FALSE, seconds |-> 0] }

Responses ==
    { [status |-> 200, body_ok |-> b, transport_ok |-> TRUE, header |-> h] :
        b \in BOOLEAN, h \in {[present |-> FALSE, numeric |-> TRUE, seconds |-> 0]} }
    \cup { [status |-> 429, body_ok |-> TRUE, transport_ok |-> TRUE, header |-> h] :
             h \in Headers }
    \cup { [status |-> 404, body_ok |-> TRUE, transport_ok |-> TRUE, header |-> NoHeader] }
    \cup { [status |-> 503, body_ok |-> TRUE, transport_ok |-> TRUE, header |-> h] :
             h \in {NoHeader, [present |-> TRUE, numeric |-> TRUE, seconds |-> 120]} }
    \cup { [status |-> 0, body_ok |-> TRUE, transport_ok |-> FALSE,
            header |-> [present |-> FALSE, numeric |-> TRUE, seconds |-> 0]] }

\* int(response.headers.get("Retry-After", "5")), in seconds
RetryAfter(header) == IF header.present THEN header.seconds ELSE DefaultRetryAfter

\* The call ends: _request_with_retry returned or raised, get_item_orders answers.
FinishRequest(inner, succeeded) ==
    [rq EXCEPT !.pc = "done", !.inner = inner, !.succeeded = succeeded,
               !.result = get_item_orders(inner)]

\* The wait before the next attempt
StartWait(wait, exc) ==
    [rq EXCEPT !.pc = "backoff", !.wait = wait, !.waited = @ + wait,
               !.requests = @ + 1, !.last_exception = exc]

\* The response of the attempt and the delay computed for it, as the call's log
\* lines record them
Noting(request, response, backoff) ==
    [request EXCEPT !.status = response.status, !.header = response.header,
                    !.backoff = backoff]

\* A variant of the retry loop with one more pass.
RetriesLeftInclusive(attempt) == attempt + 1 <= max_retries

\* for attempt in range(self.max_retries): whether a pass follows this one
RetriesLeft(attempt) == attempt + 1 < max_retries

\* backoff = max(retry_after, self._calculate_backoff(attempt)), in milliseconds
RateLimitWait(retry_after, backoff) == Max(retry_after * 1000, backoff)

\* await client.get_item_orders(item_url_name)
CallGetItemOrders ==
    /\ rq.pc = "idle"
    /\ \E item \in {"mesa_prime_set"} : rq' = [NoRequest EXCEPT !.pc = "attempt", !.item = item]
    /\ UNCHANGED <<schedVars, call, hubVars>>

\* One pass of the retry loop: the request, and what follows from its response
Attempt ==
    /\ rq.pc = "attempt"
    /\ \E response \in Responses :
       \E backoff \in calculate_backoff(rq.attempt) :
          rq' = Noting(
                IF ~response.transport_ok
                THEN StartWait(backoff, "HTTPError")
                ELSE IF response.status = 429
                THEN IF ~response.header.numeric
                     THEN [FinishRequest([kind |-> "raise"], FALSE) EXCEPT !.requests = @ + 1]
                     ELSE StartWait(RateLimitWait(RetryAfter(response.header), backoff),
                                    rq.last_exception)
                ELSE IF response.status >= 500
                THEN StartWait(backoff, rq.last_exception)
                ELSE IF response.status >= 400
                THEN StartWait(backoff, "HTTPError")
                ELSE IF ~response.body_ok
                THEN [FinishRequest([kind |-> "raise"], FALSE) EXCEPT !.requests = @ + 1]
                ELSE [FinishRequest([kind |-> "return", data |-> Book(rq.item, "good")], TRUE)
                        EXCEPT !.requests = @ + 1],
                response, backoff)
    /\ UNCHANGED <<schedVars, call, hubVars>>

\* await asyncio.sleep(backoff) ends: the next pass, or the retries are exhausted
BackoffElapsed ==
    /\ rq.pc = "backoff"
    /\ rq' = [(IF RetriesLeft(rq.attempt)
               THEN [rq EXCEPT !.pc = "attempt", !.attempt = @ + 1]
               ELSE FinishRequest([kind |-> "raise"], FALSE))
                EXCEPT !.status = 0]
    /\ UNCHANGED <<schedVars, call, hubVars>>

ClientInit ==
    /\ Init
    /\ catalog = DefaultCatalog
    /\ \A k \in ItemKeys : market[k] = "good"

ClientNext == CallGetItemOrders \/ Attempt \/ BackoffElapsed

SpecClient == ClientInit /\ [][ClientNext]_vars

\* C5: get_item_orders returns normally whatever the marketplace answers, and
\* returns the empty order list when no attempt succeeded.
GetItemOrdersNeverRaises ==
    rq.pc = "done" =>
        /\ rq.result.kind = "return"
        /\ ~rq.succeeded => rq.result.orders = <<>>

\* The call has ended after every attempt failed.
RetriesExhausted ==
    /\ rq.pc = "done"
    /\ rq.requests = max_retries
    /\ rq.inner.kind = "raise"
    /\ rq.last_exception = "HTTPError"

\* The attempt that has just been made ended in a transient failure of the
\* marketplace: no response (timeout, transport error), a status >= 500, or a 429
TransientFailure(request) ==
    \/ request.status = 0
    \/ request.status >= 500
    \/ request.status = 429

\* C30: an attempt before the fifth that ends in a transient failure (no
\* response, a status >= 500, a 429 with any Retry-After header) is followed by a
\* wait and then by a further attempt; the call does not end there.
TransientFailureRetried ==
    [][/\ (rq.pc = "attempt" /\ rq.attempt + 1 < max_retries /\ TransientFailure(rq'))
            => rq'.pc = "backoff" /\ rq'.wait > 0
       /\ (rq.pc = "backoff" /\ rq.attempt + 1 < max_retries)
            => rq'.pc = "attempt" /\ rq'.attempt = rq.attempt + 1]_vars

\* C31: the waits of one call between its attempts add up to at most
\* max_retries * max_backoff (5 * 60 s), whatever the marketplace answers.
WaitsBounded == rq.waited <= max_retries * max_backoff

\* C11: one call issues at most max_retries (5) requests whatever the responses,
\* and no request after the first successful response.
RequestsBounded ==
    [][/\ rq'.requests <= max_retries
       /\ rq.succeeded => rq'.requests = rq.requests]_vars

\* The fifth request of a call is the one that succeeds.
FifthRequestSucceeds ==
    /\ rq.pc = "done"
    /\ rq.succeeded
    /\ rq.requests = max_retries

\* C13: after a 429 response the client waits the larger of the server's
\* retry-after value and the computed backoff before the next attempt; after a
\* status >= 500 it waits the computed backoff, whatever the retry-after header.
RetryAfterHonoured ==
    /\ rq.status = 429 =>
          /\ rq.pc = "backoff"
          /\ rq.wait >= rq.backoff
          /\ (rq.header.present /\ rq.header.numeric) =>
                 rq.wait = IF rq.header.seconds * 1000 >= rq.backoff
                           THEN rq.header.seconds * 1000 ELSE rq.backoff
    /\ rq.status >= 500 => (rq.pc = "backoff" /\ rq.wait = rq.backoff)


-----------------------------------------------------------------------------
(* The hub with subscribers that come and go during a broadcast *)

HubInit ==
    /\ Init
    /\ catalog = DefaultCatalog
    /\ market \in HubMarkets

HubNext ==
    \/ \E ws \in WebSockets : Connect(ws)
    \/ \E ws \in WebSockets : send_personal_message(ws)
    \/ \E ws \in WebSockets : ClientCloses(ws)
    \/ \E ws \in WebSockets : HandlerDisconnect(ws)
    \/ SendComplete
    \/ HubPublish

SpecHub == HubInit /\ [][HubNext]_vars

\* The subscribers that send messages
Owners == {1, 2}

\* The config updates these subscribers send: one field, the three fields of
\* the handler's docstring, or all four
ConfigMessages ==
    { SetConfigMessage(fields) :
        fields \in { {"strategy"}, {"min_profit"}, {"min_profit", "min_margin", "platform"},
                     ConfigFields } }

\* The hub with its subscribers' config updates
ConfigNext ==
    \/ HubPublish
    \/ SendComplete
    \/ \E ws \in Owners : Connect(ws)
    \/ \E ws \in Owners : ClientCloses(ws)
    \/ \E ws \in Owners : HandlerDisconnect(ws)
    \/ \E ws \in Owners : SetConfig(ws) /\ received'.message \in ConfigMessages
    \/ \E ws \in Owners : send_personal_message(ws)

\* One market: the set of the second frame is offered for less than its part
ConfigInit == HubInit /\ market["volt_prime_set"] = "cheap"

SpecConfig == ConfigInit /\ [][ConfigNext]_vars


\* The config update these subscribers send: the message of the handler's
\* docstring, with both thresholds and a platform
OwnersMessages == { SetConfigMessage({"min_profit", "min_margin", "platform"}) }

\* The hub with a few subscribers, their messages and the broadcasts of a cycle
OwnersNext ==
    \/ HubPublish
    \/ SendComplete
    \/ \E ws \in Owners : Connect(ws)
    \/ \E ws \in Owners : ClientCloses(ws)
    \/ \E ws \in Owners : HandlerDisconnect(ws)
    \/ \E ws \in Owners : SetConfig(ws) /\ received'.message \in OwnersMessages
    \/ \E ws \in Owners : send_personal_message(ws)
    \/ \E ws \in Owners : OtherMessage(ws)

SpecOwners == ConfigInit /\ [][OwnersNext]_vars

-----------------------------------------------------------------------------
(* The service with its subscribers: the cycles of the scheduler broadcast to *)
(* the connections of the hub, send by send                                   *)

\* The subscribers of the service
Watchers == {1}

\* The event loop runs a websocket handler once lifespan() has yielded and while
\* it lives, and not inside the synchronous body of a request handler
HandlersRun ==
    /\ appPc \in {"serving", "stopping", "stopped"}
    /\ NoHandlerRunning

\* The service from startup to shutdown: the cycles of both tasks with their
\* broadcasts, a reader with a profit threshold, and a subscriber with its
\* config update.  The database answers: the catalog is read and the snapshots
\* are committed.
ServiceNext ==
    \/ Start
    \/ SpawnInitialFetch
    \/ StopCall
    \/ StopReturn
    \/ Shutdown
    \/ LoopTop
    \/ LoopWake
    \/ InitialBegin
    \/ Read /\ lastRead'.min_profit = 10 * Scale /\ lastRead'.min_margin = 0
    \/ ReadReturn
    \/ \E t \in TaskIds : TaskCancelled(t)
    \/ \E t \in TaskIds : ReadCatalog(t) /\ tasks'[t].pc = "fetch"
    \/ \E t \in TaskIds : FetchItem(t)
    \/ \E t \in TaskIds : Compute(t)
    \/ \E t \in TaskIds : StoreSnapshots(t) /\ ~tasks'[t].store_failed
    \/ \E t \in TaskIds : Publish(t)
    \/ \E t \in TaskIds : CycleSendComplete(t)
    \/ \E ws \in Watchers : HandlersRun /\ appPc = "serving" /\ Connect(ws)
    \/ \E ws \in Watchers : HandlersRun /\ ClientCloses(ws)
    \/ \E ws \in Watchers : HandlersRun /\ HandlerDisconnect(ws)
    \/ \E ws \in Watchers : HandlersRun /\ SetConfig(ws)
                            /\ received'.message \in OwnersMessages
    \/ \E ws \in Watchers : HandlersRun /\ send_personal_message(ws)

SpecService == ConfigInit /\ [][ServiceNext]_vars

\* C36: the opportunity list and the time of the last update change only in the
\* state replacement of a cycle, which sets them to that cycle's list and time;
\* reads, connects and disconnects of subscribers, config updates, the sends of
\* the broadcasts, the alerts and every other step leave them as they are.
StateWrittenByCycleOnly ==
    [][(current_opportunities' # current_opportunities \/ last_update' # last_update) =>
          \E t \in TaskIds :
              /\ tasks[t].pc = "publish"
              /\ tasks'[t].pc # "publish"
              /\ current_opportunities' = tasks[t].opportunities
              /\ last_update' = tasks[t].cycle]_vars

\* A cycle has published two opportunities, its update and its alert were
\* delivered to a subscriber and the cycle has ended; the subscriber has updated
\* its config and has been disconnected; a read has filtered an entry out of its
\* answer: the state still holds the list and the time of that cycle.
StateKeptByReadersAndSubscribers ==
    /\ lastRead.pending
    /\ Len(lastRead.result) < Len(current_opportunities)
    /\ Len(current_opportunities) = 2
    /\ received.message.type = "set_config"
    /\ client_configs = <<>>
    /\ sockets[received.ws] = "gone"
    /\ \E t \in TaskIds :
          LET b == tasks[t].broadcast
          IN  /\ tasks[t].pc \in {"sleep", "done"}
              /\ tasks[t].cycle = last_update
              /\ tasks[t].opportunities = current_opportunities
              /\ b.pc = "done"
              /\ Len(b.returned) = 2
              /\ b.returned[1].message = MarketUpdate(current_opportunities, last_update)
              /\ b.returned[2].message.type = "opportunity_alert"
              /\ b.returned[1].delivered[received.ws] = 1
              /\ b.returned[2].delivered[received.ws] = 1

\* The loop was cancelled while its cycle was suspended in the send of an alert,
\* the update delivered, and the initial fetch has replaced the state since.
CancelledInAlertSend ==
    /\ tasks["loop"].pc = "cancelled"
    /\ tasks["loop"].cancelledAt = "broadcast"
    /\ tasks["loop"].broadcast.message.type = "opportunity_alert"
    /\ last_update = InitialCycle

\* Both cycles are suspended in the send of their update to the same subscriber.
TwoBroadcastsInProgress ==
    /\ \A t \in TaskIds :
          /\ tasks[t].pc = "broadcast"
          /\ tasks[t].broadcast.message.type = "market_update"
          /\ tasks[t].broadcast.connection = 1
    /\ last_update = InitialCycle

\* C40: the market update a cycle broadcasts is one message with the whole
\* published list, sent as it is to every subscriber whatever thresholds and
\* platform its config stores; the stored thresholds select only the
\* opportunities of the reply to the subscriber's own set_config message.
BulkUpdateSameForAll ==
    [][/\ (bc'.pc = "sending" /\ bc' # bc /\ bc'.message.type = "market_update") =>
             /\ bc'.message = MarketUpdate(current_opportunities', last_update')
             /\ bc'.sent[bc'.connection] = bc'.message
             /\ \A ws \in WebSockets : bc'.sent[ws] \in {NoMessage, bc'.message}
       /\ (received'.count = received.count + 1
            /\ received'.message.type = "set_config"
            /\ received'.ws \in DOMAIN client_configs) =>
             LET stored == Update(client_configs[received'.ws], ConfigOf(received'.message))
             IN  received'.reply =
                   MarketUpdate(get_current_opportunities(current_opportunities,
                                                          stored.min_profit,
                                                          stored.min_margin),
                                last_update)]_vars

\* Two subscribers with different stored thresholds have both been delivered
\* the market update with the whole list, of which the thresholds of one pass
\* only a part; that part was the reply to its set_config message.
BothDeliveredWholeList ==
    /\ bc.pc = "done"
    /\ DOMAIN client_configs = {1, 2}
    /\ client_configs[1] # client_configs[2]
    /\ received.ws = 1
    /\ received.reply.opportunities =
          get_current_opportunities(current_opportunities, client_configs[1].min_profit,
                                    client_configs[1].min_margin)
    /\ \E i \in DOMAIN bc.returned :
          LET update == bc.returned[i]
          IN  /\ update.message.type = "market_update"
              /\ update.message.opportunities # <<>>
              /\ update.message.opportunities = current_opportunities
              /\ \A ws \in {1, 2} :
                    update.sent[ws] = update.message /\ update.delivered[ws] = 1
              /\ received.reply.opportunities # update.message.opportunities

\* C39: in every state of the hub the websockets in the active list are the
\* websockets with a stored config, and no websocket is in the list twice.
ActiveAreConfigured ==
    /\ { active_connections[i] : i \in DOMAIN active_connections } = DOMAIN client_configs
    /\ \A i, j \in DOMAIN active_connections :
          active_connections[i] = active_connections[j] => i = j

\* A broadcast has ended in which the send to one subscriber failed and it was
\* disconnected, a config update of another was answered, and one is registered.
OneLeftAfterFailedSend ==
    /\ bc.pc = "done"
    /\ \E i \in DOMAIN bc.returned : bc.returned[i].failed # {}
    /\ received.count > 0
    /\ Len(active_connections) = 1
    /\ \E ws \in Owners : sockets[ws] = "gone"

\* C38: a text of a subscriber that is no JSON, no JSON object, or an object of
\* another type is ignored: the subscriber stays registered with its handler in
\* the receive loop, its stored config and every other part of the hub are as
\* before, nothing is sent in response, and a later set_config message of the
\* same subscriber updates its config as any other does.
OtherTextIgnored ==
    [][/\ (received'.count = received.count + 1
            /\ received'.message.type # "set_config") =>
               /\ sockets' = sockets
               /\ sockets'[received'.ws] = "open"
               /\ Contains(active_connections', received'.ws)
               /\ active_connections' = active_connections
               /\ client_configs' = client_configs
               /\ received'.reply = NoMessage
               /\ inbox' = inbox
               /\ bc' = bc
       /\ (received'.count = received.count + 1
            /\ received'.message.type = "set_config"
            /\ received'.ws \in received.ignored
            /\ received'.ws \in DOMAIN client_configs') =>
               /\ client_configs'[received'.ws] =
                     Update(client_configs[received'.ws], ConfigOf(received'.message))
               /\ received'.reply.type = "market_update"]_vars

\* A subscriber whose text was ignored has then sent its thresholds, which are
\* stored.
ConfigSetAfterIgnoredText ==
    /\ received.count = 2
    /\ received.ws \in received.ignored
    /\ received.message.type = "set_config"
    /\ received.ws \in DOMAIN client_configs
    /\ received.before = DefaultConfig
    /\ client_configs[received.ws].min_profit = SentValue("min_profit")

\* C37: the stored config of a subscriber changes only when a set_config message
\* of that subscriber is handled: no message, connect or disconnect of another
\* subscriber, no broadcast and no cycle changes it.
ConfigOwnedBySubscriber ==
    [][\A b \in DOMAIN client_configs \cap DOMAIN client_configs' :
          client_configs'[b] # client_configs[b] =>
              /\ received'.count = received.count + 1
              /\ received'.ws = b
              /\ received'.message.type = "set_config"]_vars

\* Two subscribers are registered, one has sent its thresholds, the other has
\* the config it connected with.
OneConfigUpdated ==
    /\ DOMAIN client_configs = {1, 2}
    /\ received.ws = 1
    /\ client_configs[1].min_profit = SentValue("min_profit")
    /\ client_configs[2] = DefaultConfig
    /\ bc.pc = "done"

\* C21: after a config-update request every field it carries has the sent value
\* in the subscriber's stored config, and every field it does not carry is as it
\* was before.
ConfigMerged ==
    (received.count > 0 /\ received.ws \in DOMAIN client_configs) =>
        \A field \in ConfigFields :
            client_configs[received.ws][field] =
                IF field \in DOMAIN received.message
                THEN received.message[field]
                ELSE received.before[field]

Registered == { active_connections[i] : i \in DOMAIN active_connections }

\* C9: when a broadcast has ended, every connection that was registered for its
\* whole duration and can be sent to has received the message exactly once, no
\* connection has received it twice, and a connection whose send failed is
\* removed with its config -- also when subscribers connect or disconnect while
\* the broadcast is in progress.
BroadcastReachesEveryConnection ==
    \A i \in DOMAIN bc.returned :
        LET ended == bc.returned[i]
        IN  /\ \A ws \in ended.atStart :
                  (ws \in Registered /\ sockets[ws] = "open") => ended.delivered[ws] = 1
            /\ \A ws \in WebSockets : ended.delivered[ws] <= 1
            /\ \A ws \in ended.failed :
                  ws \notin Registered /\ ws \notin DOMAIN client_configs

\* C20: when a subscriber connects it is registered with the default config
\* (strategy balanced, min profit 0, min margin 0, platform pc), and the first
\* message sent to it is a bulk update carrying the CurrentState of that moment.
ConnectSendsCurrentState ==
    [][\A ws \in WebSockets :
          (sockets[ws] = "new" /\ sockets'[ws] # "new") =>
              /\ ws \in { active_connections'[i] : i \in DOMAIN active_connections' }
              /\ ws \in DOMAIN client_configs'
              /\ client_configs'[ws] = [strategy |-> "balanced", min_profit |-> 0,
                                        min_margin |-> 0, platform |-> "pc"]
              /\ inbox'[ws].type = "market_update"
              /\ inbox'[ws].opportunities = current_opportunities
      ]_vars

-----------------------------------------------------------------------------
(* Single applications of the pure functions of pricing.py and market_client.py *)

\* The longest list handed to a function, and the last attempt number.
MaxLen == 3
MaxAttempt == 7

\* The sequences over a set up to a length
SeqsUpTo(S, n) == UNION { [1..k -> S] : k \in 0..n }

\* Whole platinum prices, in hundredths
Amounts == { 10 * Scale, 20 * Scale, 50 * Scale }
Percentiles == {0, 20, 35, 50, 65, 100}

\* The orders the filter is tried on: one that every platform keeps or drops by
\* its platform and cross-play flags alone, and one differing from it in a
\* single other field
FilterOrders ==
    { Order("sell", TRUE, "ingame", "pc", TRUE, 10, "alice"),
      Order("sell", TRUE, "ingame", "pc", FALSE, 11, "bob"),
      Order("sell", TRUE, "ingame", "ps4", TRUE, 12, "carol"),
      Order("sell", TRUE, "ingame", "ps4", FALSE, 13, "dave"),
      Order("buy", TRUE, "ingame", "pc", TRUE, 14, "erin"),
      Order("sell", FALSE, "ingame", "pc", TRUE, 15, "frank"),
      Order("sell", TRUE, "offline", "pc", TRUE, 16, "grace"),
      Order("sell", TRUE, "online", "ps4", TRUE, 17, "heidi") }

Platforms == {"pc", "ps4", "xbox"}

\* An order with nothing but a price, as in the tests of calculate_metric
Priced(price) == Order("sell", TRUE, "ingame", "pc", TRUE, price, "alice")
OrderPrices == {-5, 0, 10, 20, 40}
Metrics == {"median", "min", "max", "p20", "p50", "p65", "mean"}

StrategyNames == {"conservative", "balanced", "aggressive", "Balanced", "", "greedy"}
KnownStrategies == {"conservative", "balanced", "aggressive"}

PartPrices == { [price |-> 0, source |-> "sell_p35"], [price |-> 10 * Scale, source |-> "sell_p35"],
                [price |-> 15 * Scale, source |-> "sell_p35"] }
SetPrices == {0, 20 * Scale, 70 * Scale, 100 * Scale}

\* list.insert(index, x)
InsertAt(list, index, x) ==
    SubSeq(list, 1, index) \o <<x>> \o SubSeq(list, index + 1, Len(list))

\* self._calculate_backoff(attempt)
ApplyBackoff ==
    /\ call = NoCall
    /\ \E attempt \in 0..MaxAttempt : \E delay \in calculate_backoff(attempt) :
          call' = [fn |-> "calculate_backoff", attempt |-> attempt, output |-> delay]
    /\ UNCHANGED <<schedVars, rq, hubVars>>

\* client.filter_orders(orders, order_type) on a client of some platform
ApplyFilterOrders ==
    /\ call = NoCall
    /\ \E platform \in Platforms, order_type \in {"sell", "buy"} :
       \E orders \in SeqsUpTo(FilterOrders, MaxLen) :
          call' = [fn |-> "filter_orders", platform |-> platform, orders |-> orders,
                   order_type |-> order_type,
                   output |-> filter_orders(platform, orders, order_type)]
    /\ UNCHANGED <<schedVars, rq, hubVars>>

\* calculate_percentile(values, percentile); sorted() leaves values as it was
ApplyPercentile ==
    /\ call = NoCall
    /\ \E values \in SeqsUpTo(Amounts, MaxLen), percentile \in Percentiles :
          call' = [fn |-> "calculate_percentile", values |-> values,
                   percentile |-> percentile,
                   output |-> calculate_percentile(values, percentile),
                   values_after |-> values]
    /\ UNCHANGED <<schedVars, rq, hubVars>>

\* calculate_metric(orders, metric), and the same with one more order whose price
\* is not positive
ApplyMetric ==
    /\ call = NoCall
    /\ \E prices \in SeqsUpTo(OrderPrices, MaxLen), metric \in Metrics :
       \E index \in {0, Len(prices)}, extra \in {p \in OrderPrices : p <= 0} :
          LET orders == [i \in DOMAIN prices |-> Priced(prices[i])]
              more == InsertAt(orders, index, Priced(extra))
          IN  call' = [fn |-> "calculate_metric", orders |-> orders, metric |-> metric,
                       output |-> calculate_metric(orders, metric),
                       more |-> more,
                       output_more |-> calculate_metric(more, metric)]
    /\ UNCHANGED <<schedVars, rq, hubVars>>

\* get_strategy_params(strategy), and calculate_frame_opportunity with that
\* strategy on what a cycle collects for a frame
ApplyStrategy ==
    /\ call = NoCall
    /\ \E strategy \in StrategyNames, m \in Markets, i \in DOMAIN DefaultCatalog :
          call' = [fn |-> "get_strategy_params", strategy |-> strategy,
                   output |-> get_strategy_params(strategy),
                   frame |-> DefaultCatalog[i],
                   market_orders |-> Collected(m, <<DefaultCatalog[i]>>),
                   opportunity |->
                       calculate_frame_opportunity(DefaultCatalog[i],
                                                   Collected(m, <<DefaultCatalog[i]>>),
                                                   strategy, settings.platform)]
    /\ UNCHANGED <<schedVars, rq, hubVars>>

\* calculate_arbitrage(part_prices, set_price, set_source, platform_fee_pct)
ApplyArbitrage ==
    /\ call = NoCall
    /\ \E part_prices \in SeqsUpTo(PartPrices, MaxLen), set_price \in SetPrices,
          platform_fee_pct \in FeeRates :
          call' = [fn |-> "calculate_arbitrage", part_prices |-> part_prices,
                   set_price |-> set_price, platform_fee_pct |-> platform_fee_pct,
                   output |-> calculate_arbitrage(part_prices, set_price, "sell_median",
                                                  platform_fee_pct)]
    /\ UNCHANGED <<schedVars, rq, hubVars>>

FunctionsInit ==
    /\ Init
    /\ catalog = DefaultCatalog
    /\ \A k \in ItemKeys : market[k] = "good"

FunctionsNext ==
    \/ ApplyBackoff
    \/ ApplyFilterOrders
    \/ ApplyPercentile
    \/ ApplyMetric
    \/ ApplyStrategy
    \/ ApplyArbitrage

SpecFunctions == FunctionsInit /\ [][FunctionsNext]_vars

\* The k-th smallest of a non-empty list, by counting
Kth(values, k) ==
    CHOOSE x \in { values[i] : i \in DOMAIN values } :
        /\ Cardinality({ i \in DOMAIN values : values[i] < x }) < k
        /\ k <= Cardinality({ i \in DOMAIN values : values[i] <= x })

\* A hundred times the linear-interpolation percentile of a non-empty list:
\* rank = p/100 * (n - 1), between the values at the floor and the ceiling of it
Interpolated100(values, p) ==
    LET n == Len(values)
        floor == (p * (n - 1)) \div 100
        ceil == IF (p * (n - 1)) % 100 = 0 THEN floor ELSE floor + 1
    IN  100 * Kth(values, floor + 1)
        + (p * (n - 1) - 100 * floor) * (Kth(values, ceil + 1) - Kth(values, floor + 1))

\* C12: the delay computed for attempt k is d + j with d = min(base * 2^k, cap)
\* (base 1 s, cap 60 s) and a jitter 0 <= j <= d/10.
BackoffWithinJitter ==
    call.fn = "calculate_backoff" =>
        LET d == IF base_backoff * Pow2(call.attempt) <= max_backoff
                 THEN base_backoff * Pow2(call.attempt) ELSE max_backoff
            j == call.output - d
        IN  j >= 0 /\ 10 * j <= d

\* A delay at the cap with the largest jitter.
CappedBackoffDrawn ==
    /\ call.fn = "calculate_backoff"
    /\ base_backoff * Pow2(call.attempt) > max_backoff
    /\ call.output = max_backoff + max_backoff \div 10

\* The orders of the asked direction that are visible, whose seller has one of
\* these statuses, and whose platform is pc (on pc) or whose seller has
\* cross-play (on a console), by their positions in the input
UsableAt(statuses) ==
    { i \in DOMAIN call.orders :
        /\ call.orders[i].order_type = call.order_type
        /\ call.orders[i].visible
        /\ call.orders[i].status \in statuses
        /\ IF call.platform = "pc" THEN call.orders[i].platform = "pc"
           ELSE call.orders[i].crossplay }

\* The output of the call is the input orders at these positions, in input order
OutputIsOrdersAt(keep) ==
    /\ Len(call.output) = Cardinality(keep)
    /\ \A n \in DOMAIN call.output :
          call.output[n] =
              call.orders[CHOOSE i \in keep : Cardinality({k \in keep : k <= i}) = n]

\* The statuses of a seller who is online: on the site, or in the game
OnlineStatuses == {"online", "ingame"}

\* C14 as stated: filter_orders returns, in input order, exactly the orders of
\* the asked direction that are visible, whose seller is online and whose
\* platform is pc (on pc) or whose seller has cross-play (on a console).
FilterKeepsOnline ==
    call.fn = "filter_orders" => OutputIsOrdersAt(UsableAt(OnlineStatuses))

\* C14: filter_orders returns, in input order, exactly the orders of the asked
\* direction that are visible, whose seller is in game and whose platform is pc
\* (on pc) or whose seller has cross-play (on a console); no order without
\* cross-play passes on a console and no order of another platform on pc.
FilterKeepsUsable ==
    call.fn = "filter_orders" =>
        LET usable(o) == /\ o.order_type = call.order_type
                         /\ o.visible
                         /\ o.status = "ingame"
                         /\ IF call.platform = "pc" THEN o.platform = "pc" ELSE o.crossplay
            keep == { i \in DOMAIN call.orders : usable(call.orders[i]) }
        IN  /\ Len(call.output) = Cardinality(keep)
            /\ \A n \in DOMAIN call.output :
                  call.output[n] =
                      call.orders[CHOOSE i \in keep : Cardinality({k \in keep : k <= i}) = n]
            /\ call.platform # "pc" =>
                  \A n \in DOMAIN call.output : call.output[n].crossplay
            /\ call.platform = "pc" =>
                  \A n \in DOMAIN call.output : call.output[n].platform = "pc"

\* On a console, of three orders the one of a seller in game with cross-play
\* is kept: the order of a seller with cross-play who is online on the site but
\* not in game is dropped, and so is an order of that console without
\* cross-play.
ConsoleDropsOnlineAndNoCrossplay ==
    /\ call.fn = "filter_orders"
    /\ call.platform = "ps4"
    /\ call.order_type = "sell"
    /\ Len(call.orders) = 3
    /\ call.orders[1] = Order("sell", TRUE, "online", "ps4", TRUE, 17, "heidi")
    /\ call.orders[2] = Order("sell", TRUE, "ingame", "pc", TRUE, 10, "alice")
    /\ call.orders[3] = Order("sell", TRUE, "ingame", "ps4", FALSE, 13, "dave")
    /\ call.output = <<call.orders[2]>>

\* C15: calculate_percentile is the linear-interpolation percentile: 0 for the
\* empty list, the minimum for p = 0, the maximum for p = 100, and it leaves its
\* input as it was.
PercentileInterpolates ==
    call.fn = "calculate_percentile" =>
        /\ call.values = <<>> => call.output = 0
        /\ call.values # <<>> =>
              /\ 100 * call.output = Interpolated100(call.values, call.percentile)
              /\ call.percentile = 0 =>
                    \A i \in DOMAIN call.values : call.output <= call.values[i]
              /\ call.percentile = 100 =>
                    \A i \in DOMAIN call.values : call.output >= call.values[i]
              /\ call.percentile \in {0, 100} =>
                    \E i \in DOMAIN call.values : call.output = call.values[i]
        /\ call.values_after = call.values

\* The 35th percentile of an unsorted list lies between two of its values.
PercentileBetweenValues ==
    /\ call.fn = "calculate_percentile"
    /\ call.values = <<50 * Scale, 10 * Scale, 20 * Scale>>
    /\ call.percentile = 35
    /\ call.output = 17 * Scale

\* C16: calculate_metric is the median / min / max / percentile of the strictly
\* positive prices, 0 when there is none, and an added order with a price <= 0
\* does not change it.
MetricOfPositivePrices ==
    call.fn = "calculate_metric" =>
        LET prices == [i \in DOMAIN call.orders |-> call.orders[i].platinum * Scale]
            positive == SelectSeq(prices, LAMBDA p : p > 0)
            n == Len(positive)
        IN  /\ positive = <<>> => call.output = 0
            /\ (positive # <<>> /\ call.metric = "min") => call.output = Kth(positive, 1)
            /\ (positive # <<>> /\ call.metric = "max") => call.output = Kth(positive, n)
            /\ (positive # <<>> /\ call.metric = "median") =>
                  2 * call.output = Kth(positive, (n + 1) \div 2) + Kth(positive, n \div 2 + 1)
            /\ (positive # <<>> /\ call.metric = "p20") =>
                  100 * call.output = Interpolated100(positive, 20)
            /\ (positive # <<>> /\ call.metric = "p50") =>
                  100 * call.output = Interpolated100(positive, 50)
            /\ (positive # <<>> /\ call.metric = "p65") =>
                  100 * call.output = Interpolated100(positive, 65)
            /\ call.output_more = call.output

\* The median of 0, 10, 20 is 15, with and without another zero.
MedianSkipsZero ==
    /\ call.fn = "calculate_metric"
    /\ call.metric = "median"
    /\ call.orders = <<Priced(0), Priced(10), Priced(20)>>
    /\ Len(call.more) = 4
    /\ call.output = 15 * Scale

\* C17: get_strategy_params gives median / buy orders for "conservative", p35 /
\* median for "balanced" and p20 / p65 for "aggressive".
StrategyTable ==
    call.fn = "get_strategy_params" =>
        /\ call.strategy = "conservative" =>
              (call.output.buy_metric = "median" /\ call.output.sell_order_type = "buy")
        /\ call.strategy = "balanced" =>
              (call.output.buy_metric = "p35" /\ call.output.sell_metric = "median")
        /\ call.strategy = "aggressive" =>
              (call.output.buy_metric = "p20" /\ call.output.sell_metric = "p65")

\* C18: for a strategy name that is not known, get_strategy_params returns the
\* parameters of "balanced", and an item is priced as with "balanced".
UnknownStrategyIsBalanced ==
    (call.fn = "get_strategy_params" /\ call.strategy \notin KnownStrategies) =>
        LET balanced == calculate_frame_opportunity(call.frame, call.market_orders,
                                                    "balanced", settings.platform)
        IN  /\ call.output = [buy_metric |-> "p35", buy_order_type |-> "sell",
                              sell_metric |-> "median", sell_order_type |-> "sell"]
            /\ call.opportunity.kind = balanced.kind
            /\ call.opportunity.kind = "opp" =>
                  [call.opportunity.opp EXCEPT !.strategy = "balanced"] = balanced.opp

\* An item is priced under a strategy name that is not known.
UnknownStrategyPriced ==
    /\ call.fn = "get_strategy_params"
    /\ call.strategy = "greedy"
    /\ call.opportunity.kind = "opp"
    /\ call.opportunity.opp.profit_plat = 85 * Scale

\* C19: calculate_arbitrage returns the sum of the part prices as parts cost; with
\* a parts cost of 0 it returns profit 0, margin 0 and fee 0; otherwise
\* fee = set price * fee rate, profit = set price - parts cost - fee and
\* margin = profit / parts cost.
ArbitrageFormulas ==
    call.fn = "calculate_arbitrage" =>
        LET cost == SumSeq([i \in DOMAIN call.part_prices |-> call.part_prices[i].price])
            out == call.output
        IN  /\ out.parts_cost = cost
            /\ cost = 0 =>
                  (out.profit_plat = 0 /\ out.profit_margin.num = 0 /\ out.fee = 0)
            /\ cost # 0 =>
                  /\ out.fee * Scale = call.set_price * call.platform_fee_pct
                  /\ out.profit_plat = call.set_price - cost - out.fee
                  /\ out.profit_margin.den # 0
                  /\ out.profit_margin.num * cost = out.profit_plat * out.profit_margin.den

\* A set of 20 over a part of 10 with a fee of 10%: fee 2, profit 8.
ArbitrageWithFee ==
    /\ call.fn = "calculate_arbitrage"
    /\ call.set_price = 20 * Scale
    /\ call.platform_fee_pct = 10
    /\ Len(call.part_prices) = 1
    /\ call.output.parts_cost = 10 * Scale
    /\ call.output.fee = 2 * Scale
    /\ call.output.profit_plat = 8 * Scale


-----------------------------------------------------------------------------
(* calculate_frame_opportunity on what a cycle collects for one frame *)

\* Part lists as DEFAULT_FRAMES has them: distinct part names
PartLists == { <<"Blueprint">>, <<"Neuroptics", "Chassis">>, <<"Chassis", "Neuroptics">> }

\* What the marketplace holds for one key: nothing; one order; an order priced 0;
\* an order priced 0 after a priced one; sell orders with two at the lowest price,
\* a cheaper one of a seller who is offline and a buy order; buy orders only
RawBooks ==
    { <<>>,
      << Order("sell", TRUE, "ingame", "pc", TRUE, 10, "alice") >>,
      << Order("sell", TRUE, "ingame", "pc", TRUE, 0, "alice") >>,
      << Order("sell", TRUE, "ingame", "pc", TRUE, 10, "amy"),
         Order("sell", TRUE, "ingame", "pc", TRUE, 0, "zed") >>,
      << Order("sell", TRUE, "ingame", "pc", TRUE, 20, "bob"),
         Order("sell", TRUE, "ingame", "pc", TRUE, 10, "carol"),
         Order("sell", TRUE, "ingame", "pc", TRUE, 10, "dave"),
         Order("sell", TRUE, "offline", "pc", TRUE, 5, "erin"),
         Order("buy", TRUE, "ingame", "pc", TRUE, 30, "frank") >>,
      << Order("buy", TRUE, "ingame", "pc", TRUE, 30, "frank"),
         Order("buy", TRUE, "ingame", "pc", TRUE, 8, "grace") >> }

\* market_orders[key] = client.filter_orders(orders, order_type="sell") for each
\* key (scheduler.py:49-71)
CollectedFrom(raw) ==
    [k \in DOMAIN raw |-> filter_orders(settings.platform, raw[k], "sell")]

\* One frame, any order book for each of its keys, any strategy
ApplyFrameOpportunity ==
    /\ call = NoCall
    /\ \E parts \in PartLists, strategy \in StrategyNames :
          LET frame == Frame("mesa_prime", "Mesa Prime", parts)
              keys == KeysOf(frame)
          IN  \E raw \in [keys -> RawBooks] :
                 call' = [fn |-> "calculate_frame_opportunity", frame |-> frame,
                          raw |-> raw, market_orders |-> CollectedFrom(raw),
                          strategy |-> strategy,
                          set_metric |->
                              calculate_part_price(
                                  GetOrders(CollectedFrom(raw), SetItemName(frame.id)),
                                  strategy, FALSE),
                          output |-> calculate_frame_opportunity(
                                         frame, CollectedFrom(raw), strategy,
                                         settings.platform)]
    /\ UNCHANGED <<schedVars, rq, hubVars>>

FrameNext == ApplyFrameOpportunity

SpecFrame == FunctionsInit /\ [][FrameNext]_vars

\* The orders a call has for a part
PartOrders(part) == GetOrders(call.market_orders, PartItemName(call.frame.id, part))

\* The part has orders and the metric of its strategy over them is positive
PartPriced(part) ==
    /\ PartOrders(part) # <<>>
    /\ calculate_metric(PartOrders(part), get_strategy_params(call.strategy).buy_metric) > 0

\* C32: when the set's price is positive an opportunity is produced whatever
\* parts have orders; its parts are the frame's parts that have orders and a
\* positive price, in the frame's order, and its profit takes the cost of those
\* parts alone.
PartialPartCoverage ==
    (call.fn = "calculate_frame_opportunity" /\ call.set_metric.price > 0) =>
        /\ call.output.kind = "opp"
        /\ LET listed == call.output.opp.parts
               priced == SelectSeq(call.frame.parts, PartPriced)
               cost == SumSeq([i \in DOMAIN listed |-> listed[i].price])
           IN  /\ [i \in DOMAIN listed |-> listed[i].name] = priced
               /\ \A i \in DOMAIN listed :
                     listed[i].price =
                         calculate_metric(PartOrders(listed[i].name),
                                          get_strategy_params(call.strategy).buy_metric)
               /\ call.output.opp.profit_plat =
                     (IF cost = 0 THEN 0
                      ELSE call.set_metric.price - cost
                           - (call.set_metric.price * env_platform_fee_pct) \div Scale)

\* The second of two parts has no priced order, the first is listed alone.
OnePartOfTwoListed ==
    /\ call.fn = "calculate_frame_opportunity"
    /\ Len(call.frame.parts) = 2
    /\ call.output.kind = "opp"
    /\ Len(call.output.opp.parts) = 1
    /\ call.output.opp.parts[1].name = call.frame.parts[1]
    /\ call.raw[PartItemName(call.frame.id, call.frame.parts[2])] # <<>>


\* The sell orders of a key that the cycle's filter keeps, from what the
\* marketplace holds for the key
Qualifying(key) ==
    SelectSeq(call.raw[key], LAMBDA o : KeepOrder(settings.platform, o, "sell"))

\* name is the seller of the first of the lowest-priced orders
FirstLowest(orders, name) ==
    \E i \in DOMAIN orders :
        /\ orders[i].ingame_name = name
        /\ \A j \in DOMAIN orders : orders[i].platinum <= orders[j].platinum
        /\ \A j \in 1..(i - 1) : orders[j].platinum > orders[i].platinum

\* C33: the seller of the set and of each listed part of an opportunity is the
\* seller of the lowest-priced qualifying sell order of its key, the first in the
\* order list among those of that price.
SellerIsFirstCheapest ==
    (call.fn = "calculate_frame_opportunity" /\ call.output.kind = "opp") =>
        LET opp == call.output.opp
        IN  /\ FirstLowest(Qualifying(SetItemName(call.frame.id)), opp.seller)
            /\ \A i \in DOMAIN opp.parts :
                  FirstLowest(Qualifying(PartItemName(call.frame.id, opp.parts[i].name)),
                              opp.parts[i].seller)

\* Two orders share the lowest price of the set and of a part: the first is named.
TiedSellersNamed ==
    /\ call.fn = "calculate_frame_opportunity"
    /\ call.output.kind = "opp"
    /\ Len(call.raw[SetItemName(call.frame.id)]) = 5
    /\ call.output.opp.seller = "carol"
    /\ Len(call.output.opp.parts) = 2
    /\ call.output.opp.parts[2].seller = "carol"


\* The source labels: f"{order_type}_{metric}" (pricing.py:131)
SourceLabels ==
    { [order_type |-> t, metric |-> m, label |-> t \o "_" \o m] :
        t \in {"sell", "buy"}, m \in {"median", "max", "min", "p35"} }

\* The order direction and the metric a label names
Named(source) == CHOOSE l \in SourceLabels : l.label = source

\* The price is the metric the label names, over the qualifying orders of the
\* direction the label names
LabelTellsPrice(key, price, source) ==
    price = calculate_metric(
                filter_orders(settings.platform, call.raw[key], Named(source).order_type),
                Named(source).metric)

\* C34: the label of the set's price and of each part's price of an opportunity
\* names the order direction and the metric that gave the price.
SourceNamesWhatWasApplied ==
    (call.fn = "calculate_frame_opportunity" /\ call.output.kind = "opp") =>
        /\ LabelTellsPrice(SetItemName(call.frame.id), call.output.opp.full_set_price,
                           call.set_metric.source)
        /\ \A i \in DOMAIN call.output.opp.parts :
              LabelTellsPrice(PartItemName(call.frame.id, call.output.opp.parts[i].name),
                              call.output.opp.parts[i].price,
                              call.output.opp.parts[i].source)

=============================================================================
